---- MODULE Spec2Model ----
(***************************************************************************)
(* Backrun search engine of hindsight (simulator/src/sim/core.rs).         *)
(*                                                                         *)
(* Amounts are counted in szabo (10^12 wei) and base fees in gwei, so that *)
(*   500_000 * 1_000_000_000 wei      = 500 szabo            (W_MIN)       *)
(*   180_000 gas * base_fee gwei      = 180 * base_fee szabo (I_MIN)       *)
(* and the unsigned integer type of the amounts is 31 bits wide.           *)
(***************************************************************************)
EXTENDS Integers, Sequences, FiniteSets, TLC

(***************************************************************************)
(* Program constants.                                                      *)
(***************************************************************************)
MAX_DEPTH == 4
STEP_INTERVALS == 15
W_MIN == 500
GAS_COST == 180
START_BALANCE == 200000000
U256_MAX == 2 * 1073741823 + 1

(***************************************************************************)
(* Bounds of the model.                                                    *)
(***************************************************************************)
BaseFeeGwei == 10
DeepStart == 15000000
WideStart == 1000000000
Gain == 1000000
FlatBalance == 7
Slope == 16

VARIABLES
    pc,                 \* position of the orchestrator / search driver
    params,             \* UserTradeParams of the trade
    block_info,         \* BlockInfo (base_fee)
    market,             \* behaviour of the forked EVM for this trade and block
    depth,              \* step_arb argument: Option<usize>
    best_amount_in_out, \* step_arb argument: Option<(U256, U256)>
    range,              \* step_arb argument: [U256; 2]
    band_width,         \* local of the expansion
    handles,            \* amount_in of the tasks spawned by the expansion
    revenues,           \* outputs of the tasks of the last expansion, by handle
    running,            \* indices of the spawned tasks that have not completed
    res,                \* value returned by the outermost step_arb call
    results,            \* SimArbResults collected by the orchestrator
    amount_in_start,    \* upper end of the initial range
    entry_best,         \* best (after unwrap_or) on entry to the last expansion
    expansions,         \* history: number of expansions of the search
    sims,               \* history: number of sim_arb tasks run by the search
    forks,              \* history: number of forks built by step_arb
    call_sims,          \* history: simulations run by the current call
    slack,              \* history: sum of the band widths of the expansions
    improved,           \* history: some band result replaced the best
    out_of_order,       \* history: a task completed before one spawned earlier
    alt_price,          \* orchestrator local: price on the counterpart pool
    start_pool,         \* orchestrator local: pool of the buy leg
    start_pool_variant, \* orchestrator local: family start_pool is simulated with
    end_pool,           \* orchestrator local: pool of the sell leg
    event,              \* EventHistory: the hint logs of the transaction
    tx_receipt,         \* what the client returns for the receipt
    trade_params,       \* value returned by derive_trade_params
    next_trade,         \* position of the orchestrator's loop over the trades
    pool_handles,       \* tasks spawned by the orchestrator, one per trade
    returned,           \* value find_optimal_backrun_amount_in_out returns
    candidates,         \* the pools get_other_pair_addresses returned
    evm,                \* a fork: the transactions committed to it, in order
    sim                 \* locals of the sim_arb call running on that fork

vars == <<pc, params, block_info, market, depth, best_amount_in_out, range,
          band_width, handles, revenues, running, res, results, amount_in_start,
          entry_best, expansions, sims, forks, call_sims, slack, improved,
          out_of_order, alt_price, start_pool, start_pool_variant, end_pool,
          event, tx_receipt, trade_params, next_trade, pool_handles, returned,
          candidates, evm, sim>>

arb_vars == <<alt_price, start_pool, start_pool_variant, end_pool>>
tx_vars == <<event, tx_receipt, trade_params, next_trade, pool_handles, returned,
             candidates>>
sim_vars == <<evm, sim>>

(***************************************************************************)
(* Option and Result values.                                               *)
(***************************************************************************)
None == [some |-> FALSE, v |-> <<0, 0>>]
Some(x) == [some |-> TRUE, v |-> x]
NoDepth == [some |-> FALSE, v |-> 0]
SomeDepth(d) == [some |-> TRUE, v |-> d]

\* Result<(U256, U256)>
Ok(x) == [ok |-> TRUE, val |-> x, msg |-> <<>>]
Err(m) == [ok |-> FALSE, val |-> <<0, 0>>, msg |-> m]
\* Result<U256>
OkU(x) == [ok |-> TRUE, val |-> x, msg |-> <<>>]
ErrU(m) == [ok |-> FALSE, val |-> 0, msg |-> m]

\* str.contains on error messages, messages being sequences of words
Contains(msg, needle) ==
    \E i \in 1..(Len(msg) - Len(needle) + 1) :
        SubSeq(msg, i, i + Len(needle) - 1) = needle

MsgPoolNotFound == <<"HindsightError::PoolNotFound", "pool">>
MsgNoOpportunity == <<"No", "arbitrage", "opportunity", "found", "for", "trade">>
MsgSystemError == <<"system", "error", "in", "step_arb">>
MsgAllReverted == <<"all", "swaps", "reverted">>
MsgForkFailed == <<"failed", "to", "fork">>
MsgCommitFailed == <<"failed", "to", "commit", "swap", ":", "error">>
MsgSwapReverted == <<"swap", "reverted", ":", "output", "(gas", "used", ":", "gas)">>
MsgSwapHalted == <<"swap", "halted", ":", "reason">>
MsgDecodeFailed == <<"failed", "to", "decode", "swap", "result", ":", "error">>

NeedleNoOtherPool == <<"no", "other", "pool", "found">>
NeedleSwapReverted == <<"swap", "reverted">>
NeedleSwapHalted == <<"swap", "halted">>

Abs(x) == IF x < 0 THEN 0 - x ELSE x
Max0(x) == IF x < 0 THEN 0 ELSE x

(***************************************************************************)
(* The forked EVM.  What a transaction does on a fresh fork of the block   *)
(* is fixed by the chain state: the market record gives, for each amount   *)
(* of the backrun, the ExecutionResult of the two probe swaps.             *)
(*   kind "Success": the output decodes to (amount_out, balance)           *)
(*   kind "Garbage": Success whose output does not decode                  *)
(*   kind "Revert", "Halt": the variants of ExecutionResult                *)
(*   kind "Error": transact_commit returned Err                            *)
(*   kind "Panic": the task running the simulation panics                  *)
(***************************************************************************)
ExecutionResult(kind, balance) == [kind |-> kind, balance |-> balance]

\* WETH balance of the probe contract after the sell leg
Curve(m, amount_in) ==
    CASE m.shape = "peak" ->
             Max0(START_BALANCE + Gain - Abs(amount_in - m.peak) \div Slope)
      [] m.shape = "flat" -> FlatBalance
      [] OTHER -> 0

SellKind(m, amount_in) ==
    IF amount_in < m.winLo THEN m.below
    ELSE IF amount_in > m.winHi THEN m.above
    ELSE "Success"

\* evm.transact_commit() of the buy leg: token balance received
TransactBuy(m, amount_in) ==
    IF m.buy = "Success"
    THEN ExecutionResult("Success", amount_in \div 2)
    ELSE ExecutionResult(m.buy, 0)

\* evm.transact_commit() of the sell leg, on the fork the buy leg left
TransactSell(m, amount_in, amount_received) ==
    IF SellKind(m, amount_in) = "Success"
    THEN ExecutionResult("Success", Curve(m, amount_in))
    ELSE ExecutionResult(SellKind(m, amount_in), 0)

TaskPanics(m, amount_in) == SellKind(m, amount_in) = "Panic"

(***************************************************************************)
(* commit_braindance_swap: Result<U256> from the ExecutionResult.          *)
(***************************************************************************)
commit_braindance_swap_RevertOk(exec) ==
    CASE exec.kind = "Error" -> ErrU(MsgCommitFailed)
      [] exec.kind = "Halt" -> ErrU(MsgSwapHalted)
      [] exec.kind = "Garbage" -> ErrU(MsgDecodeFailed)
      [] OTHER -> OkU(exec.balance)
commit_braindance_swap(exec) ==
    CASE exec.kind = "Error" -> ErrU(MsgCommitFailed)
      [] exec.kind = "Revert" -> ErrU(MsgSwapReverted)
      [] exec.kind = "Halt" -> ErrU(MsgSwapHalted)
      [] exec.kind = "Garbage" -> ErrU(MsgDecodeFailed)
      [] OTHER -> OkU(exec.balance)

(***************************************************************************)
(* sim_arb: replay of the user transaction, buy leg, sell leg.             *)
(***************************************************************************)
sim_arb(m, amount_in) ==
    LET buy == commit_braindance_swap(TransactBuy(m, amount_in))
        amount_received == IF buy.ok THEN buy.val ELSE 0
        sell == commit_braindance_swap(TransactSell(m, amount_in, amount_received))
    IN  IF sell.ok THEN Ok(<<amount_in, sell.val>>) ELSE Err(sell.msg)

\* output of a JoinHandle: Ok(result of sim_arb) or a JoinError
Joined(r) == [joined |-> TRUE, r |-> r]
JoinError == [joined |-> FALSE, r |-> Err(<<>>)]
\* a task that has not completed yet
Pending == [joined |-> FALSE, r |-> Err(<<"pending">>)]

RunTask(m, amount_in) ==
    IF TaskPanics(m, amount_in) THEN JoinError ELSE Joined(sim_arb(m, amount_in))

(***************************************************************************)
(* step_arb.                                                               *)
(***************************************************************************)
I_MIN(base_fee) == GAS_COST * base_fee

\* the range is tight enough
RangeTight_Inclusive(rng) == rng[2] - rng[1] <= W_MIN
RangeTight(rng) == rng[2] - rng[1] < W_MIN

\* the depth limit is reached
DepthLimit_OffByOne(d) == d > MAX_DEPTH + 1
DepthLimit(d) == d > MAX_DEPTH

\* the best amount of WETH in is lower than the gas cost of the backrun
ProfitTooLow_Inclusive(best, base_fee) ==
    best[1] > 0 /\ best[1] <= I_MIN(base_fee)
ProfitTooLow(best, base_fee) ==
    best[1] > 0 /\ best[1] < I_MIN(base_fee)

\* the checks on entry, in the order of the code
StepArbEntry_RangeFirst(p, best, rng, d, base_fee) ==
    IF RangeTight(rng)
    THEN [act |-> "return",
          res |-> IF best.some THEN Ok(best.v) ELSE Err(MsgNoOpportunity)]
    ELSE IF Len(p.arb_pools) = 0
    THEN [act |-> "return", res |-> Err(MsgPoolNotFound)]
    ELSE IF d.some
    THEN IF DepthLimit(d.v) \/ ProfitTooLow(best.v, base_fee)
         THEN [act |-> "return", res |-> Ok(best.v)]
         ELSE [act |-> "expand", res |-> Ok(best.v)]
    ELSE [act |-> "recurse", res |-> Ok(best.v)]
StepArbEntry(p, best, rng, d, base_fee) ==
    IF Len(p.arb_pools) = 0
    THEN [act |-> "return", res |-> Err(MsgPoolNotFound)]
    ELSE IF RangeTight(rng)
    THEN [act |-> "return",
          res |-> IF best.some THEN Ok(best.v) ELSE Err(MsgNoOpportunity)]
    ELSE IF d.some
    THEN IF DepthLimit(d.v) \/ ProfitTooLow(best.v, base_fee)
         THEN [act |-> "return", res |-> Ok(best.v)]
         ELSE [act |-> "expand", res |-> Ok(best.v)]
    ELSE [act |-> "recurse", res |-> Ok(best.v)]

BandWidth_RoundedUp(rng, intervals) == (rng[2] - rng[1]) \div intervals + 1
BandWidth(rng, intervals) == (rng[2] - rng[1]) \div intervals

\* amount_in of band i
BandAmount_DoubleStep(rng, band, i) ==
    IF band * i <= (U256_MAX - rng[1]) \div 2
    THEN rng[1] + 2 * band * i
    ELSE U256_MAX
BandAmount(rng, band, i) == rng[1] + band * i

\* every swap of the expansion reverted
AllReverted_OffByOne(num_reverts, revenue_len) == num_reverts + 1 = revenue_len
AllReverted(num_reverts, revenue_len) == num_reverts = revenue_len

\* a result replaces the best
Improves_OrEqual(balance_out, best) == balance_out >= best[2]
Improves(balance_out, best) == balance_out > best[2]

\* the loop over the results of join_all, from result i on
RECURSIVE Aggregate(_, _, _, _)
Aggregate(revs, i, best, num_reverts) ==
    IF i > Len(revs)
    THEN [returned |-> FALSE, res |-> Ok(best), best |-> best]
    ELSE LET result == revs[i] IN
         IF ~result.joined
         THEN [returned |-> TRUE, res |-> Err(MsgSystemError), best |-> best]
         ELSE IF result.r.ok
         THEN LET nb == IF Improves(result.r.val[2], best) THEN result.r.val ELSE best
              IN  IF AllReverted(num_reverts, Len(revs))
                  THEN [returned |-> TRUE, res |-> Err(MsgAllReverted), best |-> nb]
                  ELSE Aggregate(revs, i + 1, nb, num_reverts)
         ELSE IF Contains(result.r.msg, NeedleNoOtherPool)
         THEN [returned |-> TRUE, res |-> result.r, best |-> best]
         ELSE LET n == IF Contains(result.r.msg, NeedleSwapReverted)
                       THEN num_reverts + 1 ELSE num_reverts
              IN  IF AllReverted(n, Len(revs))
                  THEN [returned |-> TRUE, res |-> Err(MsgAllReverted), best |-> best]
                  ELSE Aggregate(revs, i + 1, best, n)

\* refine params: the range of the next call
Contract_Unclamped(best, band) == << best[1] - band, best[1] + band >>
Contract(best, band) ==
    << IF best[1] < band THEN 0 ELSE best[1] - band,
       IF U256_MAX - best[1] < band THEN U256_MAX ELSE best[1] + band >>

(***************************************************************************)
(* The orchestrator's view of one decoded trade.                           *)
(***************************************************************************)
\* U256 multiplication panics on overflow
MulOverflows(a, b) == b # 0 /\ a > U256_MAX \div b

\* amount_in_start: the WETH value the user sent
AmountInStart(p) ==
    IF p.token_in = p.tokens.weth
    THEN IF p.token0_is_weth THEN p.amount0_sent ELSE p.amount1_sent
    ELSE IF p.token0_is_weth
         THEN p.amount1_sent * p.price
         ELSE p.amount0_sent * p.price

AmountInStartOverflows(p) ==
    /\ p.token_in # p.tokens.weth
    /\ MulOverflows(IF p.token0_is_weth THEN p.amount1_sent ELSE p.amount0_sent,
                    p.price)

\* PoolVariant::other
other(variant) ==
    IF variant = "UniswapV2" THEN "UniswapV3" ELSE "UniswapV2"

\* the last pool in arb_pools is the one to arb on
OtherPool(p) == p.arb_pools[Len(p.arb_pools)]

\* (start_pool, start_pool_variant, end_pool)
Orientation_NotInverted(p, other_pool, alt) ==
    IF p.price > alt
    THEN <<p.pool, p.pool_variant, other_pool>>
    ELSE <<other_pool, other(p.pool_variant), p.pool>>
Orientation(p, other_pool, alt) ==
    IF p.token0_is_weth
    THEN IF p.price > alt
         THEN <<p.pool, p.pool_variant, other_pool>>
         ELSE <<other_pool, other(p.pool_variant), p.pool>>
    ELSE IF p.price > alt
         THEN <<other_pool, other(p.pool_variant), p.pool>>
         ELSE <<p.pool, p.pool_variant, other_pool>>

\* BackrunResult of a successful search
BackrunResult_Unguarded(r, start, start_variant, end) ==
    [amount_in |-> r[1],
     balance_end |-> r[2],
     profit |-> r[2] - START_BALANCE,
     start_pool |-> start,
     end_pool |-> end,
     arb_variant |-> other(start_variant)]
BackrunResult(r, start, start_variant, end) ==
    [amount_in |-> r[1],
     balance_end |-> r[2],
     profit |-> IF r[2] > START_BALANCE THEN r[2] - START_BALANCE ELSE 0,
     start_pool |-> start,
     end_pool |-> end,
     arb_variant |-> other(start_variant)]

(***************************************************************************)
(* Inputs.                                                                 *)
(***************************************************************************)
BaseFees == {0, BaseFeeGwei}

Starts == {0, W_MIN - 1, W_MIN,
           STEP_INTERVALS * (I_MIN(BaseFeeGwei) - 1),
           STEP_INTERVALS * I_MIN(BaseFeeGwei),
           DeepStart, WideStart, U256_MAX}

Variants == {"UniswapV2", "UniswapV3"}

UserTrade(variant, token0_is_weth, weth_in, sent, price, pools) ==
    LET token0 == IF token0_is_weth THEN "WETH" ELSE "TKN"
        token1 == IF token0_is_weth THEN "TKN" ELSE "WETH"
        token_in == IF weth_in THEN "WETH" ELSE "TKN"
        swap_0_for_1 == token_in = token0
    IN  [pool_variant |-> variant,
         token_in |-> token_in,
         token_out |-> IF swap_0_for_1 THEN token1 ELSE token0,
         amount0_sent |-> IF swap_0_for_1 THEN sent ELSE 0,
         amount1_sent |-> IF swap_0_for_1 THEN 0 ELSE sent,
         token0_is_weth |-> token0_is_weth,
         pool |-> "poolA",
         price |-> price,
         tokens |-> [weth |-> "WETH", token |-> "TKN"],
         arb_pools |-> pools]

Trades ==
    { UserTrade("UniswapV3", TRUE, TRUE, s, 2, <<"poolB">>) : s \in Starts }
    \cup { UserTrade(v, z, FALSE, DeepStart \div 5, 5, <<"poolC", "poolB">>) :
               v \in Variants, z \in BOOLEAN }
    \cup { UserTrade("UniswapV2", FALSE, TRUE, DeepStart, 2, <<"poolB">>),
           UserTrade("UniswapV2", TRUE, TRUE, DeepStart, 2, <<>>),
           UserTrade("UniswapV3", FALSE, FALSE, WideStart, 3, <<"poolB">>) }

\* prices the counterpart pool can have: below, at and above the trade's
AltPrices(p) == {p.price - 1, p.price, p.price + 1}

\* no transaction is being decoded, no fork is being watched
NoPool == "0x0"
NoOrientation ==
    /\ alt_price = 0
    /\ start_pool = NoPool
    /\ start_pool_variant = "UniswapV2"
    /\ end_pool = NoPool
TxIdle ==
    /\ event = <<>>
    /\ tx_receipt = [status |-> "none", logs |-> <<>>]
    /\ trade_params = [ok |-> FALSE, val |-> <<>>, msg |-> <<>>]
    /\ next_trade = 0
    /\ pool_handles = <<>>
    /\ returned = [ok |-> FALSE, val |-> <<>>, msg |-> <<>>]
    /\ candidates = <<>>
SimIdle ==
    /\ evm = <<>>
    /\ sim = [pc |-> "idle"]

Market(buy, winLo, winHi, below, above, shape, peak) ==
    [buy |-> buy, winLo |-> winLo, winHi |-> winHi, below |-> below,
     above |-> above, shape |-> shape, peak |-> peak]

FailKinds == {"Revert", "Halt", "Error", "Garbage", "Panic"}

Markets(start) ==
    LET b0 == start \div STEP_INTERVALS
        mid == b0 * 7 + b0 \div 3
    IN  \* every swap succeeds
        { Market("Success", 0, U256_MAX, "Revert", "Revert", "peak", pk) :
              pk \in {0, b0, mid, start,
                      IF start > U256_MAX - 3 * b0 THEN U256_MAX
                                                   ELSE start + 3 * b0} }
        \cup { Market("Success", 0, U256_MAX, "Revert", "Revert", sh, 0) :
              sh \in {"flat", "zero"} }
        \* every sell leg fails
        \cup { Market("Success", 0, 0 - 1, k, k, "peak", mid) : k \in FailKinds }
        \cup { Market("Success", mid, mid - 1, k[1], k[2], "peak", mid) :
              k \in {<<"Revert", "Halt">>, <<"Halt", "Revert">>,
                     <<"Revert", "Garbage">>, <<"Revert", "Panic">>,
                     <<"Panic", "Revert">>} }
        \* the sell leg succeeds for one amount_in only
        \cup { Market("Success", b0 * k, b0 * k + w, "Revert", "Revert", "peak", b0 * 3) :
              k \in {0, 3, 14}, w \in {0, (2 * b0) \div STEP_INTERVALS} }
        \* the sell leg succeeds in a window of amounts
        \cup { Market("Success", b0 * 5, b0 * 9, "Revert", k, "peak", mid) :
              k \in {"Revert", "Halt"} }
        \* the buy leg fails
        \cup { Market(k, 0, U256_MAX, "Revert", "Revert", "peak", mid) :
              k \in {"Revert", "Halt"} }
        \cup { Market("Revert", 0, 0 - 1, "Revert", "Revert", "peak", mid) }

Init ==
    /\ pc = "orchestrator"
    /\ params \in Trades
    /\ block_info \in [base_fee : BaseFees]
    /\ market \in Markets(IF AmountInStartOverflows(params) THEN 0
                          ELSE AmountInStart(params))
    /\ depth = NoDepth
    /\ best_amount_in_out = None
    /\ range = <<0, 0>>
    /\ band_width = 0
    /\ handles = <<>>
    /\ revenues = <<>>
    /\ running = {}
    /\ res = Err(<<>>)
    /\ results = <<>>
    /\ amount_in_start = 0
    /\ entry_best = <<0, 0>>
    /\ expansions = 0
    /\ sims = 0
    /\ forks = 0
    /\ call_sims = 0
    /\ slack = 0
    /\ improved = FALSE
    /\ out_of_order = FALSE
    /\ NoOrientation
    /\ TxIdle
    /\ SimIdle

(***************************************************************************)
(* find_optimal_backrun_amount_in_out: the loop body for the trade.        *)
(***************************************************************************)
search_vars == <<band_width, handles, revenues, running, entry_best, expansions, sims,
                 forks, call_sims, slack, improved, out_of_order>>

\* arb_pools is empty: continue
SkipTrade ==
    /\ pc = "orchestrator"
    /\ Len(params.arb_pools) = 0
    /\ pc' = "batched"
    /\ UNCHANGED <<params, block_info, market, depth, best_amount_in_out, range,
                   res, results, amount_in_start>>
    /\ UNCHANGED search_vars
    /\ UNCHANGED <<arb_vars, tx_vars, sim_vars>>

\* fork_evm or the price simulation fails, or the conversion of the amount
\* sent overflows: the function panics
LaunchPanics ==
    /\ pc = "orchestrator"
    /\ Len(params.arb_pools) # 0
    /\ pc' = "panicked"
    /\ UNCHANGED <<params, block_info, market, depth, best_amount_in_out, range,
                   res, results, amount_in_start>>
    /\ UNCHANGED search_vars
    /\ UNCHANGED <<arb_vars, tx_vars, sim_vars>>

\* the task of the trade calls step_arb on the initial range
Launch ==
    /\ pc = "orchestrator"
    /\ Len(params.arb_pools) # 0
    /\ ~AmountInStartOverflows(params)
    /\ amount_in_start' = AmountInStart(params)
    /\ range' = <<0, AmountInStart(params)>>
    /\ best_amount_in_out' = None
    /\ depth' = NoDepth
    /\ \E alt \in AltPrices(params) :
           LET o == Orientation(params, OtherPool(params), alt)
           IN  /\ alt_price' = alt
               /\ start_pool' = o[1]
               /\ start_pool_variant' = o[2]
               /\ end_pool' = o[3]
    /\ pc' = "call"
    /\ UNCHANGED <<params, block_info, market, res, results>>
    /\ UNCHANGED search_vars
    /\ UNCHANGED <<tx_vars, sim_vars>>

\* the task of the trade maps the result of the search; the batch is collected
Collect ==
    /\ pc = "returned"
    /\ results' = IF res.ok
                  THEN <<[user_trade |-> params,
                          backrun_trade |->
                              BackrunResult(res.val, start_pool,
                                            start_pool_variant, end_pool)]>>
                  ELSE <<>>
    /\ pc' = "batched"
    /\ UNCHANGED <<params, block_info, market, depth, best_amount_in_out, range,
                   res, amount_in_start>>
    /\ UNCHANGED search_vars
    /\ UNCHANGED <<arb_vars, tx_vars, sim_vars>>

(***************************************************************************)
(* step_arb: one action per way through a call.                            *)
(***************************************************************************)
Entry == StepArbEntry(params, best_amount_in_out, range, depth, block_info.base_fee)

\* a call that returns from the checks on entry
StepArbReturn ==
    /\ pc = "call"
    /\ Entry.act = "return"
    /\ res' = Entry.res
    /\ pc' = "returned"
    /\ UNCHANGED <<params, block_info, market, depth, best_amount_in_out, range,
                   results, amount_in_start>>
    /\ UNCHANGED search_vars
    /\ UNCHANGED <<arb_vars, tx_vars, sim_vars>>

\* depth is None: recurse with Some(0)
StepArbBootstrap_KeepsNone ==
    /\ pc = "call"
    /\ Entry.act = "recurse"
    /\ depth' = SomeDepth(0)
    /\ call_sims' = 0
    /\ UNCHANGED <<pc, params, block_info, market, range, res, results,
                   amount_in_start, band_width, handles, revenues, running,
                   entry_best, expansions, sims, forks, slack, improved,
                   out_of_order, best_amount_in_out>>
    /\ UNCHANGED <<arb_vars, tx_vars, sim_vars>>
StepArbBootstrap ==
    /\ pc = "call"
    /\ Entry.act = "recurse"
    /\ best_amount_in_out' = Some(best_amount_in_out.v)
    /\ depth' = SomeDepth(0)
    /\ call_sims' = 0
    /\ UNCHANGED <<pc, params, block_info, market, range, res, results,
                   amount_in_start, band_width, handles, revenues, running,
                   entry_best, expansions, sims, forks, slack, improved,
                   out_of_order>>
    /\ UNCHANGED <<arb_vars, tx_vars, sim_vars>>

\* run sims with current params: the band width is fixed, the loop starts
StepArbExpand ==
    /\ pc = "call"
    /\ Entry.act = "expand"
    /\ band_width' = BandWidth(range, STEP_INTERVALS)
    /\ handles' = <<>>
    /\ revenues' = <<>>
    /\ running' = {}
    /\ entry_best' = best_amount_in_out.v
    /\ expansions' = expansions + 1
    /\ slack' = slack + BandWidth(range, STEP_INTERVALS)
    /\ pc' = "spawn"
    /\ UNCHANGED <<params, block_info, market, depth, best_amount_in_out, range,
                   res, results, amount_in_start, sims, forks, call_sims, improved,
                   out_of_order>>
    /\ UNCHANGED <<arb_vars, tx_vars, sim_vars>>

\* one iteration of the loop: a fork is built and the task of the band spawned
SpawnBand ==
    /\ pc = "spawn"
    /\ Len(handles) < STEP_INTERVALS
    /\ forks' = forks + 1
    /\ handles' = Append(handles, BandAmount(range, band_width, Len(handles)))
    /\ revenues' = Append(revenues, Pending)
    /\ running' = running \cup {Len(handles) + 1}
    /\ sims' = sims + 1
    /\ call_sims' = call_sims + 1
    /\ pc' = IF Len(handles) + 1 = STEP_INTERVALS THEN "join" ELSE "spawn"
    /\ UNCHANGED <<params, block_info, market, depth, best_amount_in_out, range,
                   band_width, res, results, amount_in_start,
                   entry_best, expansions, slack, improved, out_of_order>>
    /\ UNCHANGED <<arb_vars, tx_vars, sim_vars>>

\* fork_evm fails in the loop: the error is returned
ForkFails ==
    /\ pc = "spawn"
    /\ Len(handles) < STEP_INTERVALS
    /\ res' = Err(MsgForkFailed)
    /\ pc' = "returned"
    /\ UNCHANGED <<params, block_info, market, depth, best_amount_in_out, range,
                   results, amount_in_start>>
    /\ UNCHANGED search_vars
    /\ UNCHANGED <<arb_vars, tx_vars, sim_vars>>

\* the task of band i runs sim_arb to completion on its own fork; join_all
\* keeps its output at the position of its handle
TaskCompletes_InCompletionOrder(i) ==
    /\ pc \in {"spawn", "join"}
    /\ i \in running
    /\ LET slot == CHOOSE k \in 1..Len(revenues) :
                       /\ revenues[k] = Pending
                       /\ \A j \in 1..(k - 1) : revenues[j] # Pending
       IN  revenues' = [revenues EXCEPT ![slot] = RunTask(market, handles[i])]
    /\ running' = running \ {i}
    /\ out_of_order' = (out_of_order \/ \E j \in running : j < i)
    /\ UNCHANGED <<pc, params, block_info, market, depth, best_amount_in_out,
                   range, band_width, handles, res, results, amount_in_start,
                   entry_best, expansions, sims, forks, call_sims, slack, improved>>
    /\ UNCHANGED <<arb_vars, tx_vars, sim_vars>>
TaskCompletes(i) ==
    /\ pc \in {"spawn", "join"}
    /\ i \in running
    /\ revenues' = [revenues EXCEPT ![i] = RunTask(market, handles[i])]
    /\ running' = running \ {i}
    /\ out_of_order' = (out_of_order \/ \E j \in running : j < i)
    /\ UNCHANGED <<pc, params, block_info, market, depth, best_amount_in_out,
                   range, band_width, handles, res, results, amount_in_start,
                   entry_best, expansions, sims, forks, call_sims, slack, improved>>
    /\ UNCHANGED <<arb_vars, tx_vars, sim_vars>>

\* the loop over the results of join_all, then the return or the recursive call
JoinWith(revs) ==
    LET agg == Aggregate(revs, 1, entry_best, 0)
    IN  /\ revenues' = revs
        /\ running' = {}
        /\ improved' = (improved \/ agg.best # entry_best)
        /\ IF agg.returned
           THEN /\ res' = agg.res
                /\ pc' = "returned"
                /\ UNCHANGED <<depth, best_amount_in_out, range, call_sims>>
           ELSE /\ range' = Contract(agg.best, band_width)
                /\ best_amount_in_out' = Some(agg.best)
                /\ depth' = SomeDepth(depth.v + 1)
                /\ call_sims' = 0
                /\ pc' = "call"
                /\ UNCHANGED res
        /\ UNCHANGED <<params, block_info, market, results, amount_in_start,
                       band_width, handles, entry_best, expansions, sims, forks,
                       slack, out_of_order>>
        /\ UNCHANGED <<arb_vars, tx_vars, sim_vars>>

\* join_all returns once every task has completed
JoinCompleted_Early ==
    /\ pc = "join"
    /\ JoinWith(revenues)
JoinCompleted ==
    /\ pc = "join"
    /\ running = {}
    /\ JoinWith(revenues)

\* the tasks own their forks and share no state: all of them run, join_all
\* returns their outputs by handle
JoinAll ==
    /\ pc = "join"
    /\ JoinWith([i \in 1..Len(handles) |-> RunTask(market, handles[i])])

StepArb ==
    \/ StepArbReturn
    \/ StepArbBootstrap
    \/ StepArbExpand
    \/ SpawnBand
    \/ ForkFails
    \/ JoinAll

Next ==
    \/ SkipTrade
    \/ LaunchPanics
    \/ Launch
    \/ StepArb
    \/ Collect

Spec == Init /\ [][Next]_vars

(***************************************************************************)
(* step_arb called with arbitrary arguments.                               *)
(***************************************************************************)
EntryBests ==
    {None} \cup { Some(<<a, FlatBalance>>) :
                      a \in {0, 1, I_MIN(BaseFeeGwei) - 1, I_MIN(BaseFeeGwei),
                             U256_MAX - 1} }

EntryRanges ==
    { <<lo, lo + w>> : lo \in {0, 2 * W_MIN},
                       w \in {0, W_MIN - 1, W_MIN, 40 * W_MIN} }

EntryMarkets ==
    { Market("Success", 0, U256_MAX, "Revert", "Revert", "peak", 3 * W_MIN),
      Market("Success", 0, U256_MAX, "Revert", "Revert", "flat", 0),
      Market("Success", 0, 0 - 1, "Revert", "Revert", "peak", 0) }

InitStepArb ==
    /\ pc = "call"
    /\ params \in { UserTrade("UniswapV3", TRUE, TRUE, DeepStart, 2, pools) :
                        pools \in {<<>>, <<"poolB">>} }
    /\ block_info \in [base_fee : BaseFees]
    /\ market \in EntryMarkets
    /\ depth \in {NoDepth} \cup { SomeDepth(d) : d \in 0..(MAX_DEPTH + 1) }
    /\ best_amount_in_out \in EntryBests
    /\ range \in EntryRanges
    /\ band_width = 0
    /\ handles = <<>>
    /\ revenues = <<>>
    /\ running = {}
    /\ res = Err(<<>>)
    /\ results = <<>>
    /\ amount_in_start = range[2]
    /\ entry_best = <<0, 0>>
    /\ expansions = 0
    /\ sims = 0
    /\ forks = 0
    /\ call_sims = 0
    /\ slack = 0
    /\ improved = FALSE
    /\ out_of_order = FALSE
    /\ alt_price = 0
    /\ start_pool = params.pool
    /\ start_pool_variant = params.pool_variant
    /\ end_pool = "poolB"
    /\ TxIdle
    /\ SimIdle

SpecStepArb == InitStepArb /\ [][StepArb]_vars

(***************************************************************************)
(* One expansion with its tasks completing in any order.                   *)
(***************************************************************************)
JoinMarkets ==
    LET b0 == DeepStart \div STEP_INTERVALS
    IN  { Market("Success", 0, U256_MAX, "Revert", "Revert", "flat", 0),
          Market("Success", b0 * 5, b0 * 9, "Revert", "Panic", "peak", b0 * 7) }

InitJoin ==
    /\ pc = "spawn"
    /\ params = UserTrade("UniswapV3", TRUE, TRUE, DeepStart, 2, <<"poolB">>)
    /\ block_info = [base_fee |-> BaseFeeGwei]
    /\ market \in JoinMarkets
    /\ depth = SomeDepth(0)
    /\ best_amount_in_out \in {Some(<<0, 0>>), Some(<<1, FlatBalance>>)}
    /\ range = <<0, DeepStart>>
    /\ band_width = BandWidth(range, STEP_INTERVALS)
    /\ handles = <<>>
    /\ revenues = <<>>
    /\ running = {}
    /\ res = Err(<<>>)
    /\ results = <<>>
    /\ amount_in_start = DeepStart
    /\ entry_best = best_amount_in_out.v
    /\ expansions = 1
    /\ sims = 0
    /\ forks = 0
    /\ call_sims = 0
    /\ slack = band_width
    /\ improved = FALSE
    /\ out_of_order = FALSE
    /\ alt_price = 0
    /\ start_pool = params.pool
    /\ start_pool_variant = params.pool_variant
    /\ end_pool = "poolB"
    /\ TxIdle
    /\ SimIdle

NextJoin ==
    \/ SpawnBand
    \/ ForkFails
    \/ \E i \in 1..STEP_INTERVALS : TaskCompletes(i)
    \/ JoinCompleted

SpecJoin == InitJoin /\ [][NextJoin]_vars

(***************************************************************************)
(* One sim_arb call, step by step, on its fork.  The fork is the journal   *)
(* of the calls of transact_commit made on it; a call whose outcome is     *)
(* "Error" leaves the state of the fork as it was.                         *)
(***************************************************************************)
orch_vars == <<pc, params, block_info, market, depth, best_amount_in_out, range,
               res, results, amount_in_start>>

transact_commit(fork, tx, exec) == Append(fork, [tx |-> tx, result |-> exec])

\* inject_tx: tx.gas.as_u64() panics on a gas limit above u64::MAX
inject_tx_panics(tx) == ~tx.gas_fits

\* commit_tx: Result<ExecutionResult>, on the fork
commit_tx_AlwaysOk(fork, tx) ==
    LET exec == ExecutionResult(tx.outcome, 0)
    IN  [evm |-> transact_commit(fork, tx, exec),
         res |-> [ok |-> TRUE, val |-> exec]]
commit_tx(fork, tx) ==
    LET exec == ExecutionResult(tx.outcome, 0)
    IN  [evm |-> transact_commit(fork, tx, exec),
         res |-> [ok |-> tx.outcome # "Error", val |-> exec]]

\* the loop of sim_bundle from the transactions left and the results so far
RECURSIVE SimBundleLoop(_, _, _)
SimBundleLoop(fork, signed_txs, results_so_far) ==
    IF signed_txs = <<>>
    THEN [evm |-> fork, res |-> [ok |-> TRUE, val |-> results_so_far]]
    ELSE LET c == commit_tx(fork, Head(signed_txs))
         IN  SimBundleLoop(c.evm, Tail(signed_txs),
                           IF c.res.ok THEN Append(results_so_far, c.res.val)
                           ELSE results_so_far)

sim_bundle(fork, signed_txs) == SimBundleLoop(fork, signed_txs, <<>>)

\* the probe's swap of the buy leg and of the sell leg
BuySwap(s, p) ==
    [variant |-> s.start_pair_variant[2], amount_in |-> s.amount_in,
     target_pool |-> s.start_pair_variant[1],
     token_in |-> p.tokens.weth, token_out |-> p.tokens.token]

SellSwap_SameAmount(s, p) ==
    [variant |-> s.end_pair_variant[2], amount_in |-> s.amount_in,
     target_pool |-> s.end_pair_variant[1],
     token_in |-> p.tokens.token, token_out |-> p.tokens.weth]
SellSwap(s, p) ==
    [variant |-> s.end_pair_variant[2], amount_in |-> s.amount_received,
     target_pool |-> s.end_pair_variant[1],
     token_in |-> p.tokens.token, token_out |-> p.tokens.weth]

\* the user's trade has changed the state of the fork
UserTxApplied(fork, user_tx) ==
    \E i \in 1..Len(fork) :
        fork[i].tx = user_tx /\ fork[i].result.kind = "Success"

\* what the pools do on the fork: after the user's trade, or without it
ForkMarket == IF UserTxApplied(evm, sim.user_tx) THEN market ELSE sim.stale

\* sim_bundle(&mut evm, vec![user_tx]).await?
SimBundle ==
    /\ sim.pc = "bundle"
    /\ LET b == sim_bundle(evm, <<sim.user_tx>>)
       IN  /\ evm' = b.evm
           /\ sim' = IF b.res.ok
                     THEN [sim EXCEPT !.pc = "buy", !.bundle = b.res.val]
                     ELSE [sim EXCEPT !.pc = "done", !.res = Err(<<"bundle">>)]
    /\ UNCHANGED <<orch_vars, search_vars, arb_vars, tx_vars>>

\* buy tokens on one exchange; an error of the swap leaves amount_received 0
BuyLeg ==
    /\ sim.pc = "buy"
    /\ LET exec == TransactBuy(ForkMarket, sim.amount_in)
           r == commit_braindance_swap(exec)
       IN  /\ evm' = transact_commit(evm, BuySwap(sim, params), exec)
           /\ sim' = [sim EXCEPT !.pc = "sell",
                                 !.amount_received = IF r.ok THEN r.val ELSE 0]
    /\ UNCHANGED <<orch_vars, search_vars, arb_vars, tx_vars>>

\* sell them on the other exchange; an error of the swap is returned
SellLeg ==
    /\ sim.pc = "sell"
    /\ ~TaskPanics(ForkMarket, sim.amount_in)
    /\ LET exec == TransactSell(ForkMarket, sim.amount_in, sim.amount_received)
           r == commit_braindance_swap(exec)
       IN  /\ evm' = transact_commit(evm, SellSwap(sim, params), exec)
           /\ sim' = [sim EXCEPT !.pc = "done",
                                 !.res = IF r.ok THEN Ok(<<sim.amount_in, r.val>>)
                                         ELSE Err(r.msg)]
    /\ UNCHANGED <<orch_vars, search_vars, arb_vars, tx_vars>>

\* the task panics in the simulation
SimPanics ==
    /\ sim.pc = "sell"
    /\ TaskPanics(ForkMarket, sim.amount_in)
    /\ sim' = [sim EXCEPT !.pc = "panicked"]
    /\ UNCHANGED evm
    /\ UNCHANGED <<orch_vars, search_vars, arb_vars, tx_vars>>

SimArb ==
    \/ SimBundle
    \/ BuyLeg
    \/ SellLeg
    \/ SimPanics

TxOutcomes == {"Success", "Revert", "Halt", "Error"}

SimAmounts == {0, W_MIN, DeepStart \div 3, DeepStart}

SimMarkets ==
    LET b0 == DeepStart \div STEP_INTERVALS
    IN  { Market(k, 0, U256_MAX, "Revert", "Revert", "peak", b0 * 7) :
              k \in {"Success", "Revert", "Halt", "Error", "Garbage"} }
        \cup { Market("Success", b0 * 5, b0 * 9, k, "Panic", "peak", b0 * 7) :
              k \in {"Revert", "Halt", "Error", "Garbage"} }

StaleMarkets ==
    { Market("Success", 0, U256_MAX, "Revert", "Revert", "flat", 0),
      Market("Revert", 0, 0 - 1, "Revert", "Revert", "zero", 0) }

InitSimArb ==
    /\ pc = "spawn"
    /\ params \in { UserTrade(v, z, FALSE, DeepStart \div 5, 5, <<"poolC", "poolB">>) :
                        v \in Variants, z \in BOOLEAN }
    /\ block_info = [base_fee |-> BaseFeeGwei]
    /\ market \in SimMarkets
    /\ depth = SomeDepth(0)
    /\ best_amount_in_out = Some(<<0, 0>>)
    /\ range = <<0, DeepStart>>
    /\ band_width = BandWidth(range, STEP_INTERVALS)
    /\ handles = <<>>
    /\ revenues = <<>>
    /\ running = {}
    /\ res = Err(<<>>)
    /\ results = <<>>
    /\ amount_in_start = DeepStart
    /\ entry_best = <<0, 0>>
    /\ expansions = 1
    /\ sims = 0
    /\ forks = 0
    /\ call_sims = 0
    /\ slack = band_width
    /\ improved = FALSE
    /\ out_of_order = FALSE
    /\ alt_price \in AltPrices(params)
    /\ start_pool = Orientation(params, OtherPool(params), alt_price)[1]
    /\ start_pool_variant = Orientation(params, OtherPool(params), alt_price)[2]
    /\ end_pool = Orientation(params, OtherPool(params), alt_price)[3]
    /\ TxIdle
    /\ evm = <<>>
    /\ \E outcome \in TxOutcomes, a \in SimAmounts, stale \in StaleMarkets :
           sim = [pc |-> "bundle",
                  user_tx |-> [hash |-> "user_tx", outcome |-> outcome],
                  amount_in |-> a,
                  start_pair_variant |-> <<start_pool, start_pool_variant>>,
                  end_pair_variant |-> <<end_pool, other(start_pool_variant)>>,
                  stale |-> stale,
                  bundle |-> <<>>,
                  amount_received |-> 0,
                  res |-> Err(<<>>)]

SpecSimArb == InitSimArb /\ [][SimArb]_vars

(***************************************************************************)
(* derive_trade_params: the trades of a transaction, from the hint logs of *)
(* the event and the logs of the receipt.                                  *)
(***************************************************************************)
univ3_topic == "Swap(address,address,int256,int256,uint160,uint128,int24)"
univ2_topic == "Swap(address,uint256,uint256,uint256,uint256,address)"
sync_topic == "Sync(uint112,uint112)"
uniswap_topics == {univ3_topic, univ2_topic}
WETH == "WETH"

MsgTransport == <<"transport", "error">>
MsgTxNotLanded == <<"HindsightError::TxNotLanded", "hash">>
MsgNoSwapLogs == <<"no", "swap", "logs", "found", "for", "tx", "hash">>

\* Result<Vec<_>>
OkVec(x) == [ok |-> TRUE, val |-> x, msg |-> <<>>]
ErrVec(m) == [ok |-> FALSE, val |-> <<>>, msg |-> m]

SeqRange(q) == { q[i] : i \in 1..Len(q) }

\* iter().find(): the position of the first log that matches, 0 if none does
FindSwapLog(logs, swap_topic, pool_address) ==
    LET hits == { i \in 1..Len(logs) :
                      /\ swap_topic \in SeqRange(logs[i].topics)
                      /\ logs[i].address = pool_address }
    IN  IF hits = {} THEN 0 ELSE CHOOSE i \in hits : \A j \in hits : i <= j

FindSyncLog(logs, pool_address) ==
    LET hits == { i \in 1..Len(logs) :
                      /\ logs[i].topics[1] = sync_topic
                      /\ logs[i].address = pool_address }
    IN  IF hits = {} THEN 0 ELSE CHOOSE i \in hits : \A j \in hits : i <= j

\* the pricing helpers of the crate
get_price_v2(reserve0, reserve1) == reserve1 \div reserve0
get_price_v3(liquidity, sqrt_price) == sqrt_price * sqrt_price

\* the pool router: the tokens of a pool, the pools of a pair on the other
\* family (zero addresses for the factories that have none)
get_pair_tokens(pool_address) ==
    CASE pool_address = "poolA" -> <<WETH, "TKN">>
      [] pool_address = "poolD" -> <<"TKN", WETH>>
      [] pool_address = "poolF" -> <<"TKN", "DAI">>
      [] OTHER -> <<WETH, "TKN2">>

get_other_pair_addresses(pair, pool_variant) ==
    IF "TKN2" \in {pair[1], pair[2]}
    THEN <<NoPool>>
    ELSE IF "DAI" \in {pair[1], pair[2]}
    THEN <<"poolG">>
    ELSE IF pool_variant = "UniswapV3"
    THEN <<NoPool, "poolB">>
    ELSE <<"poolC", NoPool, "poolB">>

IsSwapHint_Any(log) == TRUE
IsSwapHint(log) == log.topics[1] \in uniswap_topics

\* log.topics[0] of a hint log without topics: index out of bounds
HintPanics(ev) == \E i \in 1..Len(ev) : Len(ev[i].topics) = 0
NotZero(pool) == pool # NoPool

\* .into_iter().filter(|pool| !pool.is_zero()).collect()
ArbPools_Unfiltered(routed) == routed
ArbPools(routed) == SelectSeq(routed, NotZero)

\* the direction of the trade
TokenIn(swap_0_for_1, token0, token1) == IF swap_0_for_1 THEN token0 ELSE token1
TokenOut_Token1(swap_0_for_1, token0, token1) == token1
TokenOut(swap_0_for_1, token0, token1) == IF swap_0_for_1 THEN token1 ELSE token0

\* the body of the loop for one swap log of the hint
DecodeSwap(swap_topic, pool_address, swap_log, logs) ==
    LET pool_variant == IF swap_topic = univ3_topic
                        THEN "UniswapV3" ELSE "UniswapV2"
        tks == get_pair_tokens(pool_address)
        token0 == tks[1]
        token1 == tks[2]
        token0_is_weth == token0 = WETH
        sync == FindSyncLog(logs, pool_address)
        d == swap_log.data
        decoded ==
            IF pool_variant = "UniswapV3"
            THEN << IF d[1] <= 0 THEN 0 ELSE d[1],
                    IF d[2] <= 0 THEN 0 ELSE d[2],
                    get_price_v3(d[4], d[3]) >>
            ELSE << d[3], d[4],
                    IF sync # 0
                    THEN get_price_v2(logs[sync].data[1], logs[sync].data[2])
                    ELSE 0 >>
        swap_0_for_1 == decoded[1] > 0
        token_in == TokenIn(swap_0_for_1, token0, token1)
        token_out == TokenOut(swap_0_for_1, token0, token1)
    IN  [pool_variant |-> pool_variant,
         token_in |-> token_in,
         token_out |-> token_out,
         amount0_sent |-> decoded[1],
         amount1_sent |-> decoded[2],
         token0_is_weth |-> token0_is_weth,
         pool |-> pool_address,
         price |-> decoded[3],
         tokens |-> [weth |-> IF token0_is_weth THEN token0 ELSE token1,
                     token |-> IF token0_is_weth THEN token1 ELSE token0],
         arb_pools |-> ArbPools(get_other_pair_addresses(<<token_in, token_out>>,
                                                         pool_variant))]

\* the loop over the swap logs of the hint, from the logs left
RECURSIVE DecodeLoop(_, _, _)
DecodeLoop(swap_logs, logs, done) ==
    IF swap_logs = <<>>
    THEN OkVec(done)
    ELSE LET hint == Head(swap_logs)
             at == FindSwapLog(logs, hint.topics[1], hint.address)
         IN  IF at = 0
             THEN ErrVec(MsgNoSwapLogs)
             ELSE DecodeLoop(Tail(swap_logs), logs,
                      Append(done, DecodeSwap(hint.topics[1], hint.address,
                                              logs[at], logs)))

derive_trade_params(ev, receipt) ==
    LET swap_logs == SelectSeq(ev, IsSwapHint)
    IN  CASE receipt.status = "transport" -> ErrVec(MsgTransport)
          [] receipt.status = "missing" -> ErrVec(MsgTxNotLanded)
          [] OTHER -> DecodeLoop(swap_logs, receipt.logs, <<>>)

(***************************************************************************)
(* step_arb as the recursive function it is: the value a search returns    *)
(* when every fork can be built.                                           *)
(***************************************************************************)
RECURSIVE step_arb(_, _, _, _, _, _)
step_arb(p, m, base_fee, best, rng, d) ==
    LET entry == StepArbEntry(p, best, rng, d, base_fee)
        band == BandWidth(rng, STEP_INTERVALS)
        revs == [i \in 1..STEP_INTERVALS |->
                     RunTask(m, BandAmount(rng, band, i - 1))]
        agg == Aggregate(revs, 1, best.v, 0)
    IN  CASE entry.act = "return" -> entry.res
          [] entry.act = "recurse" ->
                 step_arb(p, m, base_fee, Some(best.v), rng, SomeDepth(0))
          [] OTHER ->
                 IF agg.returned
                 THEN agg.res
                 ELSE step_arb(p, m, base_fee, Some(agg.best),
                               Contract(agg.best, band), SomeDepth(d.v + 1))

(***************************************************************************)
(* find_optimal_backrun_amount_in_out for a whole transaction: the trades  *)
(* are decoded, the loop spawns one task per trade, the tasks are joined.  *)
(***************************************************************************)
MaxHints == 2
TradeStart == 7500

HintLogs ==
    { [address |-> "poolA", topics |-> <<univ3_topic>>],
      [address |-> "poolD", topics |-> <<univ2_topic>>],
      [address |-> "poolE", topics |-> <<univ2_topic>>],
      [address |-> "poolF", topics |-> <<univ2_topic>>],
      [address |-> "poolA", topics |-> <<"Transfer(address,address,uint256)">>],
      [address |-> "poolA", topics |-> <<>>] }

Events == UNION { [1..n -> HintLogs] : n \in 0..MaxHints }

\* the data of a Swap log: V3 (amount0, amount1, sqrtPriceX96, liquidity),
\* V2 (amount0In, amount1In, amount0Out, amount1Out); the user sells token0,
\* sells token1, or the log carries no amount at all
SwapShapes == {"sells0", "sells1", "empty"}

SwapDataV3(shape) ==
    CASE shape = "sells0" -> <<TradeStart, 0 - W_MIN, 2, 1>>
      [] shape = "sells1" -> <<0 - W_MIN, TradeStart, 2, 1>>
      [] OTHER -> <<0, 0, 2, 1>>

SwapDataV2(shape) ==
    CASE shape = "sells0" -> <<W_MIN, 0, 0, TradeStart>>
      [] shape = "sells1" -> <<0, W_MIN, TradeStart, 0>>
      [] OTHER -> <<0, 0, 0, 0>>

\* the logs of the receipt: the swaps on the pools of landed
ReceiptLogs(landed, shape) ==
    <<[address |-> "TKN",
       topics |-> <<"Transfer(address,address,uint256)", "from", "to">>,
       data |-> <<TradeStart>>]>>
    \o (IF "poolA" \in landed
        THEN <<[address |-> "poolA",
                topics |-> <<univ3_topic, "sender", "recipient">>,
                data |-> SwapDataV3(shape)]>>
        ELSE <<>>)
    \o (IF "poolD" \in landed
        THEN <<[address |-> "poolD", topics |-> <<sync_topic>>,
                data |-> <<2, 10>>],
               [address |-> "poolD",
                topics |-> <<univ2_topic, "sender", "to">>,
                data |-> SwapDataV2(shape)]>>
        ELSE <<>>)
    \o <<[address |-> "poolE",
          topics |-> <<univ2_topic, "sender", "to">>,
          data |-> SwapDataV2("sells1")]>>
    \o (IF shape = "sells0"
        THEN <<[address |-> "poolF",
                topics |-> <<univ2_topic, "sender", "to">>,
                data |-> SwapDataV2(shape)]>>
        ELSE <<>>)

Receipts ==
    { [status |-> "ok", logs |-> ReceiptLogs(landed, shape)] :
          landed \in SUBSET {"poolA", "poolD"}, shape \in SwapShapes }
    \cup { [status |-> st, logs |-> <<>>] : st \in {"missing", "transport"} }

\* what the pools of a trade can do in its search
TradeMarkets(start) ==
    LET b0 == start \div STEP_INTERVALS
    IN  { Market("Success", 0, U256_MAX, "Revert", "Revert", "peak", b0 * 7),
          Market("Success", 0, U256_MAX, "Revert", "Revert", "flat", 0),
          Market("Success", 0, 0 - 1, "Revert", "Revert", "peak", b0 * 7) }

Running == [joined |-> FALSE, some |-> FALSE, val |-> "running"]
TaskPanicked == [joined |-> FALSE, some |-> FALSE, val |-> "panicked"]
TaskNone == [joined |-> TRUE, some |-> FALSE, val |-> "none"]
TaskSome(x) == [joined |-> TRUE, some |-> TRUE, val |-> x]

Trade == trade_params.val[next_trade]

batch_fixed == <<params, block_info, market, depth, best_amount_in_out, range, res,
                 amount_in_start, band_width, handles, revenues, running,
                 entry_best, expansions, sims, call_sims, slack, improved,
                 out_of_order, arb_vars, sim_vars, event, tx_receipt, candidates>>

\* derive_trade_params panics on a hint log without topics
DecodePanics ==
    /\ pc = "decode"
    /\ HintPanics(event)
    /\ pc' = "panicked"
    /\ UNCHANGED <<trade_params, next_trade, pool_handles, returned, results,
                   forks, batch_fixed>>

\* derive_trade_params(...).await?
Decode ==
    /\ pc = "decode"
    /\ ~HintPanics(event)
    /\ LET decoded == derive_trade_params(event, tx_receipt)
       IN  /\ trade_params' = decoded
           /\ IF decoded.ok
              THEN /\ pc' = "loop"
                   /\ next_trade' = 1
                   /\ UNCHANGED returned
              ELSE /\ pc' = "done"
                   /\ returned' = ErrVec(decoded.msg)
                   /\ UNCHANGED next_trade
    /\ UNCHANGED <<pool_handles, results, forks, batch_fixed>>

\* arb_pools of the trade is empty: continue
ContinueLoop_Break ==
    /\ pc = "loop"
    /\ next_trade <= Len(trade_params.val)
    /\ Len(Trade.arb_pools) = 0
    /\ next_trade' = Len(trade_params.val) + 1
    /\ UNCHANGED <<pc, trade_params, pool_handles, returned, results, forks,
                   batch_fixed>>
ContinueLoop ==
    /\ pc = "loop"
    /\ next_trade <= Len(trade_params.val)
    /\ Len(Trade.arb_pools) = 0
    /\ next_trade' = next_trade + 1
    /\ UNCHANGED <<pc, trade_params, pool_handles, returned, results, forks,
                   batch_fixed>>

\* fork_evm or the simulation of the price of the counterpart pool fails, or
\* the conversion of the amount sent overflows: the function panics
LoopPanics ==
    /\ pc = "loop"
    /\ next_trade <= Len(trade_params.val)
    /\ Len(Trade.arb_pools) # 0
    /\ pc' = "panicked"
    /\ UNCHANGED <<trade_params, next_trade, pool_handles, returned, results,
                   forks, batch_fixed>>

\* the fork is built, the price simulated, the orientation chosen and the
\* task of the trade spawned; search is what step_arb returns for the trade
\* when its forks can be built, which the state of the chain at the block fixes
SpawnTrade ==
    /\ pc = "loop"
    /\ next_trade <= Len(trade_params.val)
    /\ Len(Trade.arb_pools) # 0
    /\ ~AmountInStartOverflows(Trade)
    /\ forks' = forks + 1
    /\ \E alt \in AltPrices(Trade), m \in TradeMarkets(AmountInStart(Trade)) :
           LET o == Orientation(Trade, OtherPool(Trade), alt)
               initial_range == <<0, AmountInStart(Trade)>>
           IN  pool_handles' =
                   Append(pool_handles,
                          [params |-> Trade,
                           start_pool |-> o[1],
                           start_pool_variant |-> o[2],
                           end_pool |-> o[3],
                           initial_range |-> initial_range,
                           search |-> step_arb(Trade, m, block_info.base_fee,
                                               None, initial_range, NoDepth),
                           out |-> Running])
    /\ next_trade' = next_trade + 1
    /\ UNCHANGED <<pc, trade_params, returned, results, batch_fixed>>

\* the loop is over
LoopEnds ==
    /\ pc = "loop"
    /\ next_trade > Len(trade_params.val)
    /\ pc' = "join"
    /\ UNCHANGED <<trade_params, next_trade, pool_handles, returned, results,
                   forks, batch_fixed>>

\* the task of a trade runs its search and maps the result
TradeTaskCompletes(i) ==
    /\ pc \in {"loop", "join"}
    /\ i \in 1..Len(pool_handles)
    /\ pool_handles[i].out = Running
    /\ \E forks_ok \in BOOLEAN :
           LET h == pool_handles[i]
               r == IF forks_ok THEN h.search ELSE Err(MsgForkFailed)
               out == IF r.ok
                      THEN TaskSome([user_trade |-> h.params,
                                     backrun_trade |->
                                         BackrunResult(r.val, h.start_pool,
                                                       h.start_pool_variant,
                                                       h.end_pool)])
                      ELSE TaskNone
           IN  pool_handles' = [pool_handles EXCEPT ![i].out = out]
    /\ UNCHANGED <<pc, trade_params, next_trade, returned, results, forks,
                   batch_fixed>>

\* the task of a trade panics
TradeTaskPanics(i) ==
    /\ pc \in {"loop", "join"}
    /\ i \in 1..Len(pool_handles)
    /\ pool_handles[i].out = Running
    /\ pool_handles' = [pool_handles EXCEPT ![i].out = TaskPanicked]
    /\ UNCHANGED <<pc, trade_params, next_trade, returned, results, forks,
                   batch_fixed>>

IsSomeResult_Profitable(h) ==
    h.out.joined /\ h.out.some /\ h.out.val.backrun_trade.profit > 0
IsSomeResult(h) == h.out.joined /\ h.out.some
ResultOf(h) == h.out.val

\* join_all, then the results that are Ok and Some, in the order of the handles
CollectBatch ==
    /\ pc = "join"
    /\ \A i \in 1..Len(pool_handles) : pool_handles[i].out # Running
    /\ LET kept == SelectSeq(pool_handles, IsSomeResult)
           batch == [i \in 1..Len(kept) |-> ResultOf(kept[i])]
       IN  /\ results' = batch
           /\ returned' = OkVec(batch)
    /\ pc' = "done"
    /\ UNCHANGED <<trade_params, next_trade, pool_handles, forks, batch_fixed>>

NextBatch ==
    \/ DecodePanics
    \/ Decode
    \/ ContinueLoop
    \/ LoopPanics
    \/ SpawnTrade
    \/ LoopEnds
    \/ \E i \in 1..MaxHints + 1 : TradeTaskCompletes(i)
    \/ \E i \in 1..MaxHints + 1 : TradeTaskPanics(i)
    \/ CollectBatch

InitBatch ==
    /\ pc = "decode"
    /\ event \in Events
    /\ tx_receipt \in Receipts
    /\ trade_params = ErrVec(<<>>)
    /\ next_trade = 0
    /\ pool_handles = <<>>
    /\ returned = ErrVec(<<>>)
    /\ candidates = <<>>
    /\ results = <<>>
    /\ forks = 0
    /\ params = UserTrade("UniswapV3", TRUE, TRUE, DeepStart, 2, <<"poolB">>)
    /\ block_info = [base_fee |-> BaseFeeGwei]
    /\ market = Market("Success", 0, U256_MAX, "Revert", "Revert", "flat", 0)
    /\ depth = NoDepth
    /\ best_amount_in_out = None
    /\ range = <<0, 0>>
    /\ band_width = 0
    /\ handles = <<>>
    /\ revenues = <<>>
    /\ running = {}
    /\ res = Err(<<>>)
    /\ amount_in_start = 0
    /\ entry_best = <<0, 0>>
    /\ expansions = 0
    /\ sims = 0
    /\ call_sims = 0
    /\ slack = 0
    /\ improved = FALSE
    /\ out_of_order = FALSE
    /\ NoOrientation
    /\ SimIdle

SpecBatch == InitBatch /\ [][NextBatch]_vars

(***************************************************************************)
(* One pass of the decoder's loop body, for any answer of the pool router. *)
(***************************************************************************)
MaxCandidates == 3

Addresses == {NoPool, "poolA", "poolB", "poolD"}
CandidateLists == UNION { [1..n -> Addresses] : n \in 0..MaxCandidates }

\* the swap log is decoded, the answer of the router filtered and the trade
\* pushed
PushTrade ==
    /\ pc = "route"
    /\ LET hint == event[1]
           at == FindSwapLog(tx_receipt.logs, hint.topics[1], hint.address)
           decoded == DecodeSwap(hint.topics[1], hint.address,
                                 tx_receipt.logs[at], tx_receipt.logs)
       IN  trade_params' =
               OkVec(<<[decoded EXCEPT !.arb_pools = ArbPools(candidates)]>>)
    /\ pc' = "done"
    /\ UNCHANGED <<next_trade, pool_handles, returned, results, forks,
                   batch_fixed>>

InitArbPools ==
    /\ pc = "route"
    /\ event \in { <<[address |-> "poolA", topics |-> <<univ3_topic>>]>>,
                    <<[address |-> "poolD", topics |-> <<univ2_topic>>]>> }
    /\ \E shape \in SwapShapes :
           tx_receipt = [status |-> "ok",
                         logs |-> ReceiptLogs({"poolA", "poolD"}, shape)]
    /\ candidates \in CandidateLists
    /\ trade_params = ErrVec(<<>>)
    /\ next_trade = 0
    /\ pool_handles = <<>>
    /\ returned = ErrVec(<<>>)
    /\ results = <<>>
    /\ forks = 0
    /\ params = UserTrade("UniswapV3", TRUE, TRUE, DeepStart, 2, <<"poolB">>)
    /\ block_info = [base_fee |-> BaseFeeGwei]
    /\ market = Market("Success", 0, U256_MAX, "Revert", "Revert", "flat", 0)
    /\ depth = NoDepth
    /\ best_amount_in_out = None
    /\ range = <<0, 0>>
    /\ band_width = 0
    /\ handles = <<>>
    /\ revenues = <<>>
    /\ running = {}
    /\ res = Err(<<>>)
    /\ amount_in_start = 0
    /\ entry_best = <<0, 0>>
    /\ expansions = 0
    /\ sims = 0
    /\ call_sims = 0
    /\ slack = 0
    /\ improved = FALSE
    /\ out_of_order = FALSE
    /\ NoOrientation
    /\ SimIdle

SpecArbPools == InitArbPools /\ [][PushTrade]_vars

(***************************************************************************)
(* One call of sim_bundle, on a fork that may have run transactions        *)
(* before, with a bundle of any length and any outcome of each commit.      *)
(***************************************************************************)
MaxTxs == 3

SignedTx(i, outcome, fits) == [hash |-> i, outcome |-> outcome, gas_fits |-> fits]

Bundles ==
    UNION { { [i \in 1..n |-> SignedTx(i, f[i][1], f[i][2])] :
                  f \in [1..n -> TxOutcomes \X BOOLEAN] } : n \in 0..MaxTxs }

EarlierForks ==
    { <<>>, <<[tx |-> SignedTx(0, "Success", TRUE),
               result |-> ExecutionResult("Success", 0)]>> }

\* the transactions inject_tx is reached with: up to the first that panics
RECURSIVE Injected(_)
Injected(signed_txs) ==
    IF signed_txs = <<>> THEN <<>>
    ELSE IF inject_tx_panics(Head(signed_txs)) THEN <<>>
    ELSE <<Head(signed_txs)>> \o Injected(Tail(signed_txs))

\* sim_bundle(&mut evm, signed_txs).await returns
SimBundleReturns ==
    /\ sim.pc = "bundle"
    /\ Injected(sim.signed_txs) = sim.signed_txs
    /\ LET b == sim_bundle(evm, sim.signed_txs)
       IN  /\ evm' = b.evm
           /\ sim' = [sim EXCEPT !.pc = "done", !.res = b.res]
    /\ UNCHANGED <<orch_vars, search_vars, arb_vars, tx_vars>>

\* a transaction of the bundle panics in inject_tx, after the ones before it
\* were committed
SimBundlePanics ==
    /\ sim.pc = "bundle"
    /\ Injected(sim.signed_txs) # sim.signed_txs
    /\ evm' = sim_bundle(evm, Injected(sim.signed_txs)).evm
    /\ sim' = [sim EXCEPT !.pc = "panicked"]
    /\ UNCHANGED <<orch_vars, search_vars, arb_vars, tx_vars>>

NextBundle ==
    \/ SimBundleReturns
    \/ SimBundlePanics

InitBundle ==
    /\ pc = "sim_bundle"
    /\ params = UserTrade("UniswapV3", TRUE, TRUE, DeepStart, 2, <<"poolB">>)
    /\ block_info = [base_fee |-> BaseFeeGwei]
    /\ market = Market("Success", 0, U256_MAX, "Revert", "Revert", "flat", 0)
    /\ depth = NoDepth
    /\ best_amount_in_out = None
    /\ range = <<0, 0>>
    /\ band_width = 0
    /\ handles = <<>>
    /\ revenues = <<>>
    /\ running = {}
    /\ res = Err(<<>>)
    /\ results = <<>>
    /\ amount_in_start = 0
    /\ entry_best = <<0, 0>>
    /\ expansions = 0
    /\ sims = 0
    /\ forks = 0
    /\ call_sims = 0
    /\ slack = 0
    /\ improved = FALSE
    /\ out_of_order = FALSE
    /\ NoOrientation
    /\ TxIdle
    /\ evm \in EarlierForks
    /\ \E txs \in Bundles :
           sim = [pc |-> "bundle", signed_txs |-> txs, fork |-> evm,
                  res |-> [ok |-> FALSE, val |-> <<>>]]

SpecBundle == InitBundle /\ [][NextBundle]_vars

(***************************************************************************)
(* The two legs step_arb is called with.                                   *)
(***************************************************************************)
start_pair_variant == <<start_pool, start_pool_variant>>
end_pair_variant_SameFamily == <<end_pool, start_pool_variant>>
end_pair_variant == <<end_pool, other(start_pool_variant)>>

(***************************************************************************)
(* Properties.                                                             *)
(***************************************************************************)
Width == range[2] - range[1]

CostFloor ==
    /\ best_amount_in_out.v[1] > 0
    /\ best_amount_in_out.v[1] < 180 * block_info.base_fee

\* C1: a search started by the orchestrator terminates; every expansion
\* raises the depth by exactly one and happens at a depth in 0..MAX_DEPTH,
\* so there are at most MAX_DEPTH + 1 expansions and (MAX_DEPTH + 1) *
\* STEP_INTERVALS simulations; a call entered at depth MAX_DEPTH + 1 returns
\* the current best without simulating.
C1_Bounded ==
    /\ expansions <= MAX_DEPTH + 1
    /\ sims <= (MAX_DEPTH + 1) * STEP_INTERVALS
    /\ (pc = "call" /\ depth.some) => depth.v = expansions
    /\ pc \in {"spawn", "join"} =>
           depth.some /\ depth.v = expansions - 1 /\ depth.v <= MAX_DEPTH
    /\ (pc = "returned" /\ depth = SomeDepth(MAX_DEPTH + 1)) =>
           res = Ok(best_amount_in_out.v) /\ call_sims = 0

\* number of steps the search can still take: every step lowers it
Rank ==
    LET block == STEP_INTERVALS + 3
        left == MAX_DEPTH + 1 - expansions
    IN  CASE pc \in {"batched", "panicked"} -> 0
          [] pc = "returned" -> 1
          [] pc = "join" -> 3 + left * block
          [] pc = "spawn" -> 4 + left * block + (STEP_INTERVALS - Len(handles))
          [] pc = "call" /\ depth.some -> 2 + left * block
          [] pc = "call" /\ ~depth.some -> 3 + left * block
          [] OTHER -> 4 + left * block

C1_SearchTerminates ==
    []C1_Bounded /\ [][Rank' < Rank /\ Rank' >= 0]_vars

C1_Witness ==
    /\ pc = "returned"
    /\ depth = SomeDepth(MAX_DEPTH + 1)
    /\ Width >= W_MIN
    /\ expansions = MAX_DEPTH + 1
    /\ sims = (MAX_DEPTH + 1) * STEP_INTERVALS
    /\ res = Ok(best_amount_in_out.v)

(***************************************************************************)
(* The results of the last expansion, once join_all has returned.          *)
(***************************************************************************)
Joined15 ==
    /\ pc \in {"call", "returned", "batched"}
    /\ Len(revenues) = STEP_INTERVALS
    /\ running = {}
    /\ \A i \in 1..Len(revenues) : revenues[i] # Pending

Bands == 1..Len(revenues)
IsOk(t) == t.joined /\ t.r.ok
IsRevert(t) == t.joined /\ ~t.r.ok /\ t.r.msg = MsgSwapReverted
IsHalt(t) == t.joined /\ ~t.r.ok /\ t.r.msg = MsgSwapHalted

AllButOneRevert ==
    /\ Cardinality({i \in Bands : IsRevert(revenues[i])}) = STEP_INTERVALS - 1
    /\ Cardinality({i \in Bands : IsOk(revenues[i])}) = 1

TheOkBand == (CHOOSE i \in Bands : IsOk(revenues[i]))

\* C3 as stated: if every band fails with a swap revert the search returns
\* AllReverted; if all but one revert and the remaining band returns
\* Ok((a, b)), the search does not return AllReverted and (a, b) becomes the
\* current best.
C3_OneOkBecomesBest ==
    Joined15 =>
        /\ (\A i \in Bands : IsRevert(revenues[i])) =>
               pc # "call" /\ res = Err(MsgAllReverted)
        /\ AllButOneRevert =>
               /\ res # Err(MsgAllReverted)
               /\ best_amount_in_out = Some(revenues[TheOkBand].r.val)

\* C3 amended: if every band fails with a swap revert the search returns
\* AllReverted; if all but one revert and the remaining band returns
\* Ok((a, b)), the search does not return AllReverted, and (a, b) becomes the
\* current best when b is greater than the balance of the best held on entry
\* to the expansion; otherwise that best is kept.
C3_OneOkBestIfGreater ==
    Joined15 =>
        /\ (\A i \in Bands : IsRevert(revenues[i])) =>
               pc # "call" /\ res = Err(MsgAllReverted)
        /\ AllButOneRevert =>
               /\ res # Err(MsgAllReverted)
               /\ best_amount_in_out =
                      Some(IF revenues[TheOkBand].r.val[2] > entry_best[2]
                           THEN revenues[TheOkBand].r.val
                           ELSE entry_best)

C3_Witness ==
    /\ Joined15
    /\ AllButOneRevert
    /\ pc = "call"
    /\ revenues[TheOkBand].r.val[2] > entry_best[2]
    /\ best_amount_in_out = Some(revenues[TheOkBand].r.val)

\* C4: sim_arb returns an error whenever the buy leg or the sell leg reverts
\* or halts; it never returns Ok for a simulation whose buy leg reverted or
\* halted.
C4_LegFailureIsError ==
    \A i \in Bands :
        (/\ revenues[i].joined
         /\ \/ TransactBuy(market, handles[i]).kind \in {"Revert", "Halt"}
            \/ SellKind(market, handles[i]) \in {"Revert", "Halt"})
        => ~revenues[i].r.ok

\* C5: a halt of a probe call counts toward the AllReverted threshold like a
\* revert: an expansion in which every band fails with a revert or a halt
\* returns AllReverted.
C5_HaltCountsAsRevert ==
    (Joined15 /\ \A i \in Bands : IsRevert(revenues[i]) \/ IsHalt(revenues[i]))
        => pc # "call" /\ res = Err(MsgAllReverted)

\* C6: a search that terminates without any band result ever having improved
\* on balance_end* = 0 returns the NoOpportunity error, and the orchestrator
\* emits no SimArbResult for the trade.
C6_NoImprovementNoResult ==
    (/\ pc = "batched"
     /\ ~improved
     /\ res.ok \/ res.msg = MsgNoOpportunity)
        => res = Err(MsgNoOpportunity) /\ results = <<>>

\* C7: on entry to a step_arb call with non-empty arb_pools, a range narrower
\* than W_MIN makes the call return at once without simulating, the current
\* best if there is one and the NoOpportunity error otherwise; a range of
\* width W_MIN or more does not: such a call returns at once only for the
\* depth limit or the cost floor.
C7_RangeTight ==
    [][(pc = "call" /\ Len(params.arb_pools) # 0) =>
          IF Width < W_MIN
          THEN /\ pc' = "returned"
               /\ res' = IF best_amount_in_out.some
                         THEN Ok(best_amount_in_out.v)
                         ELSE Err(MsgNoOpportunity)
               /\ sims' = sims /\ forks' = forks
          ELSE /\ res' # Err(MsgNoOpportunity)
               /\ pc' = "returned" =>
                      depth.some /\ (depth.v > MAX_DEPTH \/ CostFloor)]_vars

C7_Witness ==
    /\ pc = "returned"
    /\ Len(params.arb_pools) # 0
    /\ Width = W_MIN - 1
    /\ ~best_amount_in_out.some
    /\ res = Err(MsgNoOpportunity)
    /\ call_sims = 0

\* C8: on entry to a step_arb call at a depth d <= MAX_DEPTH whose range is
\* at least W_MIN wide, the call returns the current best without simulating
\* if 0 < amount_in* < 180_000 * base_fee, and expands otherwise (in
\* particular for amount_in* = 0 and amount_in* = 180_000 * base_fee).
C8_CostFloor ==
    [][(/\ pc = "call"
        /\ Len(params.arb_pools) # 0
        /\ Width >= W_MIN
        /\ depth.some /\ depth.v <= MAX_DEPTH) =>
          IF CostFloor
          THEN /\ pc' = "returned"
               /\ res' = Ok(best_amount_in_out.v)
               /\ sims' = sims /\ forks' = forks
          ELSE pc' = "spawn"]_vars

C8_Witness ==
    /\ pc = "returned"
    /\ Len(params.arb_pools) # 0
    /\ Width >= W_MIN
    /\ depth.some /\ depth.v <= MAX_DEPTH
    /\ block_info.base_fee > 0
    /\ best_amount_in_out.v[1] = 180 * block_info.base_fee - 1
    /\ res = Ok(best_amount_in_out.v)
    /\ call_sims = 0

\* C9: the check for an empty arb_pools comes first: with arb_pools empty,
\* step_arb returns PoolNotFound whatever the range, the depth and the
\* current best are, and builds no fork and runs no simulation.
C9_PoolNotFoundFirst ==
    [][(pc = "call" /\ Len(params.arb_pools) = 0) =>
          /\ pc' = "returned"
          /\ res' = Err(MsgPoolNotFound)
          /\ forks' = 0 /\ sims' = 0]_vars

C9_Witness ==
    /\ pc = "returned"
    /\ Len(params.arb_pools) = 0
    /\ Width < W_MIN
    /\ best_amount_in_out.some
    /\ depth = SomeDepth(MAX_DEPTH + 1)
    /\ res = Err(MsgPoolNotFound)

\* C10: a search started on [0, amount_in_start] that terminates successfully
\* returns an amount_in* >= 0 that exceeds amount_in_start by no more than the
\* sum of the band widths of the expansions performed.
C10_AmountWithinSlack ==
    (pc \in {"returned", "batched"} /\ res.ok) =>
        /\ res.val[1] >= 0
        /\ res.val[1] - slack <= amount_in_start

C10_Witness ==
    /\ pc = "returned"
    /\ res.ok
    /\ expansions >= 2
    /\ res.val[1] > 0
    /\ res.val[1] = amount_in_start - band_width

(***************************************************************************)
(* The outcome of the expansion as fixed by the outcomes of the bands.     *)
(***************************************************************************)
Outcome(i) == RunTask(market, handles[i])

Fatal(i) ==
    \/ ~Outcome(i).joined
    \/ Contains(Outcome(i).r.msg, NeedleNoOtherPool)

ExpectedError ==
    IF \E i \in 1..Len(handles) : Fatal(i)
    THEN LET f == CHOOSE i \in 1..Len(handles) :
                      Fatal(i) /\ \A j \in 1..(i - 1) : ~Fatal(j)
         IN  IF Outcome(f).joined THEN Outcome(f).r ELSE Err(MsgSystemError)
    ELSE IF \A i \in 1..Len(handles) : IsRevert(Outcome(i))
    THEN Err(MsgAllReverted)
    ELSE Ok(<<0, 0>>)

ExpectedBest ==
    LET oks == {i \in 1..Len(handles) : IsOk(Outcome(i))}
        better == {i \in oks : Outcome(i).r.val[2] > entry_best[2]}
    IN  IF better = {}
        THEN entry_best
        ELSE LET top == CHOOSE i \in better :
                            \A j \in better :
                                \/ Outcome(j).r.val[2] < Outcome(i).r.val[2]
                                \/ (Outcome(j).r.val[2] = Outcome(i).r.val[2] /\ i <= j)
             IN  Outcome(top).r.val

\* C2: for a fixed assignment of outcomes to the bands, the output kept for
\* each handle is the outcome of its band, and the result of the expansion
\* (the error it ends in, or else the updated best) is the one the outcomes
\* fix, whatever the order in which the tasks completed.
C2_OrderIndependent ==
    /\ \A i \in 1..Len(revenues) :
           revenues[i] # Pending => revenues[i] = Outcome(i)
    /\ Joined15 =>
           IF ExpectedError.ok
           THEN pc = "call" /\ best_amount_in_out = Some(ExpectedBest)
           ELSE pc = "returned" /\ res = ExpectedError

C2_Witness ==
    /\ Joined15
    /\ out_of_order
    /\ pc = "call"
    /\ best_amount_in_out = Some(ExpectedBest)
    /\ ExpectedBest # entry_best

(***************************************************************************)
(* The orientation chosen by the orchestrator and the result it maps.      *)
(***************************************************************************)
\* the task of the trade has been spawned
Launched ==
    \/ pc \in {"call", "spawn", "join", "returned"}
    \/ pc = "batched" /\ Len(params.arb_pools) # 0

Oriented == <<start_pool, start_pool_variant, end_pool>>

\* C13: the orientation table.  With price = params.price and alt =
\* alt_price, and other_pool the last element of arb_pools:
\*   token0_is_weth, price > alt:   (params.pool, pool_variant, other_pool)
\*   token0_is_weth, price <= alt:  (other_pool, pool_variant.other(), params.pool)
\*   ~token0_is_weth, price > alt:  (other_pool, pool_variant.other(), params.pool)
\*   ~token0_is_weth, price <= alt: (params.pool, pool_variant, other_pool)
\* and a user sell of non-WETH token0 on V2 with the V2 price above the V3
\* price starts on the V3 pool and ends on the V2 pool.
C13_OrientationTable ==
    Launched =>
        LET last == params.arb_pools[Len(params.arb_pools)]
            V2 == "UniswapV2"
            V3 == "UniswapV3"
            flipped == IF params.pool_variant = V2 THEN V3 ELSE V2
            same == <<params.pool, params.pool_variant, last>>
            cross == <<last, flipped, params.pool>>
        IN  /\ (params.token0_is_weth /\ params.price > alt_price) => Oriented = same
            /\ (params.token0_is_weth /\ params.price <= alt_price) => Oriented = cross
            /\ (~params.token0_is_weth /\ params.price > alt_price) => Oriented = cross
            /\ (~params.token0_is_weth /\ params.price <= alt_price) => Oriented = same
            /\ (/\ ~params.token0_is_weth
                /\ params.token_in = "TKN"
                /\ params.pool_variant = V2
                /\ params.price > alt_price)
               => /\ start_pool = last /\ start_pool_variant = V3
                  /\ end_pool = params.pool

C13_Witness ==
    /\ Launched
    /\ ~params.token0_is_weth
    /\ params.token_in = "TKN"
    /\ params.amount0_sent > 0
    /\ params.pool_variant = "UniswapV2"
    /\ params.price > alt_price
    /\ start_pool = "poolB"
    /\ start_pool_variant = "UniswapV3"
    /\ end_pool = "poolA"

\* C14: in every emitted BackrunResult, arb_variant is the pool family of
\* the buy leg: the family start_pool was simulated with in the search that
\* produced the result.
C14_ArbVariantIsBuyFamily ==
    \A i \in 1..Len(results) :
        results[i].backrun_trade.arb_variant = start_pool_variant

\* C15: for every returned SimArbResult, profit = max(0, balance_end - S)
\* with S the starting balance of the probe, so 0 <= profit <= balance_end,
\* and amount_in and balance_end are the pair the search returned.
C15_ProfitClamped ==
    \A i \in 1..Len(results) :
        LET b == results[i].backrun_trade
        IN  /\ b.balance_end >= START_BALANCE => b.profit = b.balance_end - START_BALANCE
            /\ b.balance_end < START_BALANCE => b.profit = 0
            /\ b.profit >= 0
            /\ b.profit <= b.balance_end
            /\ res = Ok(<<b.amount_in, b.balance_end>>)

C15_Witness ==
    /\ Len(results) = 1
    /\ results[1].backrun_trade.balance_end > 0
    /\ results[1].backrun_trade.balance_end < START_BALANCE
    /\ results[1].backrun_trade.profit = 0
    /\ results[1].backrun_trade.amount_in = res.val[1]

(***************************************************************************)
(* The journal of the fork of one sim_arb call.                            *)
(***************************************************************************)
\* C11: within one sim_arb call, on its single fork, the replay of the user
\* transaction comes first, then the buy leg (WETH -> token on start_pool,
\* for the amount_in argument), then the sell leg (token -> WETH on
\* end_pool); the input of the sell leg is the balance the buy leg returned,
\* and the pair returned is (amount_in as passed, the WETH balance the sell
\* leg returned).
C11_ReplayBuySell ==
    LET buy == [variant |-> start_pool_variant, amount_in |-> sim.amount_in,
                target_pool |-> start_pool,
                token_in |-> "WETH", token_out |-> "TKN"]
        sell(amount) ==
               [variant |-> IF start_pool_variant = "UniswapV2"
                            THEN "UniswapV3" ELSE "UniswapV2",
                amount_in |-> amount, target_pool |-> end_pool,
                token_in |-> "TKN", token_out |-> "WETH"]
    IN  /\ sim.pc = "bundle" => evm = <<>>
        /\ sim.pc = "buy" => Len(evm) = 1
        /\ sim.pc \in {"sell", "panicked"} => Len(evm) = 2
        /\ sim.pc = "done" => Len(evm) = 3
        /\ Len(evm) >= 1 => evm[1].tx = sim.user_tx
        /\ Len(evm) >= 2 => evm[2].tx = buy
        /\ Len(evm) >= 3 =>
               /\ evm[2].result.kind = "Success" =>
                      evm[3].tx = sell(evm[2].result.balance)
               /\ evm[3].tx \in {sell(evm[2].result.balance), sell(0)}
               /\ sim.res.ok =>
                      sim.res.val = <<sim.amount_in, evm[3].result.balance>>

C11_Witness ==
    /\ sim.pc = "done"
    /\ Len(evm) = 3
    /\ evm[1].result.kind = "Success"
    /\ evm[2].result.kind = "Success"
    /\ evm[2].result.balance > 0
    /\ evm[2].result.balance # sim.amount_in
    /\ evm[3].tx.amount_in = evm[2].result.balance
    /\ evm[3].tx.target_pool = end_pool
    /\ sim.res.ok
    /\ sim.res.val[2] > START_BALANCE

\* C12: the legs of the backrun are only executed on a fork to which the
\* user transaction has been applied: if the replay of the user transaction
\* fails, sim_arb simulates neither leg and does not return Ok.
C12_NoLegsWithoutReplay ==
    (Len(evm) >= 1 /\ evm[1].result.kind = "Error") =>
        /\ Len(evm) = 1
        /\ ~(sim.pc = "done" /\ sim.res.ok)

(***************************************************************************)
(* The batch of a transaction.                                             *)
(***************************************************************************)
Finished == pc \in {"done", "panicked"}
HasPools(p) == Len(p.arb_pools) # 0
SwapHints == { i \in 1..Len(event) : event[i].topics # <<>> /\
                   event[i].topics[1] \in {univ3_topic, univ2_topic} }
Matched(i) ==
    \E k \in 1..Len(tx_receipt.logs) :
        /\ tx_receipt.logs[k].address = event[i].address
        /\ \E t \in 1..Len(tx_receipt.logs[k].topics) :
               tx_receipt.logs[k].topics[t] = event[i].topics[1]

Succeeded(h) == h.out.joined /\ h.out.some

\* C16: a failure confined to one trade (the price of its counterpart pool
\* cannot be computed, its search returns an error, or its task panics)
\* yields no SimArbResult for that trade and does not suppress its siblings:
\* once the function has finished, the batch it returned holds the results
\* of the trades whose search succeeded, and nothing else.
C16_FailureConfined ==
    (Finished /\ \E i \in 1..Len(pool_handles) : Succeeded(pool_handles[i])) =>
        LET kept == SelectSeq(pool_handles, Succeeded)
        IN  /\ returned.ok
            /\ returned.val = [k \in 1..Len(kept) |-> kept[k].out.val]

\* C17: the orchestrator returns an error to its caller only for a transport
\* failure or a system error; a missing receipt, or a hint log without a
\* matching log in the receipt, makes it skip the trade and return Ok.
C17_OnlyTransportSurfaced ==
    (pc = "done" /\ ~returned.ok) =>
        /\ returned.msg \in {MsgTransport, MsgSystemError}
        /\ tx_receipt.status # "missing"
        /\ tx_receipt.status = "ok" => \A i \in SwapHints : Matched(i)

\* C18: a decoded trade whose arb_pools is empty is passed over by the loop:
\* no fork is built and no task spawned for it, so no search and no sim_arb
\* run for it and no SimArbResult carries it, and the loop goes on to the
\* next trade: once the loop is over, the tasks spawned are those of the
\* trades with a non-empty arb_pools, in order.
C18_EmptyPoolsSkipped ==
    /\ [](/\ \A i \in 1..Len(pool_handles) : HasPools(pool_handles[i].params)
          /\ \A k \in 1..Len(results) : HasPools(results[k].user_trade)
          /\ pc \in {"join", "done"} =>
                 [i \in 1..Len(pool_handles) |-> pool_handles[i].params]
                     = SelectSeq(trade_params.val, HasPools))
    /\ [][(/\ pc = "loop"
           /\ next_trade <= Len(trade_params.val)
           /\ ~HasPools(trade_params.val[next_trade])) =>
             /\ forks' = forks
             /\ Len(pool_handles') = Len(pool_handles)
             /\ pc' = "loop"
             /\ next_trade' \in {next_trade, next_trade + 1}]_vars

C18_Witness ==
    /\ pc = "done"
    /\ returned.ok
    /\ Len(trade_params.val) = 2
    /\ ~HasPools(trade_params.val[1])
    /\ HasPools(trade_params.val[2])
    /\ Len(pool_handles) = 1
    /\ forks = 1
    /\ Len(returned.val) = 1
    /\ returned.val[1].user_trade = trade_params.val[2]

\* C19: in the decoder, a selected hint log with no matching log in the
\* receipt fails that trade only: the UserTradeParams of the other selected
\* hint logs of the transaction are still emitted.
C19_UnmatchedHintSkipped ==
    (pc \in {"loop", "join", "done"} /\ tx_receipt.status = "ok") =>
        /\ trade_params.ok
        /\ \A i \in SwapHints :
               Matched(i) => \E k \in 1..Len(trade_params.val) :
                                 trade_params.val[k].pool = event[i].address

HintMatched(h) == FindSwapLog(tx_receipt.logs, h.topics[1], h.address) # 0
Decoded == pc \in {"loop", "join", "done"} /\ tx_receipt.status = "ok"

\* C21: the decoder emits exactly one UserTradeParams per selected hint log
\* that has its log in the receipt, in hint order (two for a transaction with
\* two swap hint logs on two pools); the orchestrator runs one search per
\* trade that has a counterpart pool, and the results of the successful
\* searches make up the returned batch, in trade order.
C21_OnePerHintInOrder ==
    Decoded =>
        LET emitted == SelectSeq(SelectSeq(event, IsSwapHint), HintMatched)
            kept == SelectSeq(pool_handles, Succeeded)
        IN  /\ trade_params.ok
            /\ Len(trade_params.val) = Len(emitted)
            /\ \A i \in 1..Len(emitted) :
                   trade_params.val[i].pool = emitted[i].address
            /\ pc \in {"join", "done"} =>
                   [i \in 1..Len(pool_handles) |-> pool_handles[i].params]
                       = SelectSeq(trade_params.val, HasPools)
            /\ pc = "done" =>
                   /\ returned.ok
                   /\ returned.val = [k \in 1..Len(kept) |-> kept[k].out.val]

\* C22: every UserTradeParams the decoder emits has at least one of
\* amount0_sent, amount1_sent strictly positive: a swap log whose amounts are
\* zero on both sides is a decode failure for that log and never reaches the
\* loop of the orchestrator as a trade.
C22_SomeAmountPositive ==
    /\ trade_params.ok =>
           \A i \in 1..Len(trade_params.val) :
               \/ trade_params.val[i].amount0_sent > 0
               \/ trade_params.val[i].amount1_sent > 0
    /\ \A i \in 1..Len(pool_handles) :
           \/ pool_handles[i].params.amount0_sent > 0
           \/ pool_handles[i].params.amount1_sent > 0

\* the Swap log of the receipt a trade was decoded from
SwapLogOf(p) ==
    LET topic == IF p.pool_variant = "UniswapV3" THEN univ3_topic ELSE univ2_topic
    IN  tx_receipt.logs[FindSwapLog(tx_receipt.logs, topic, p.pool)]

\* the token the user sold into the pool, as the Swap event records it: the
\* token whose amount is positive (V3: the amounts are the pool's deltas),
\* the token whose amountIn is positive (V2)
SoldToken(p) ==
    LET tks == get_pair_tokens(p.pool)
    IN  IF SwapLogOf(p).data[1] > 0 THEN tks[1] ELSE tks[2]
BoughtToken(p) ==
    LET tks == get_pair_tokens(p.pool)
    IN  IF SwapLogOf(p).data[1] > 0 THEN tks[2] ELSE tks[1]

\* C23: for every emitted UserTradeParams, of either family, the strictly
\* positive one of amount0_sent / amount1_sent is the amount of the token the
\* user sold into the pool: token_in is the token the user sold and token_out
\* the token the user received.
C23_PositiveSideIsSold ==
    trade_params.ok =>
        \A i \in 1..Len(trade_params.val) :
            LET p == trade_params.val[i]
            IN  (p.amount0_sent > 0 \/ p.amount1_sent > 0) =>
                    /\ p.token_in = SoldToken(p)
                    /\ p.token_out = BoughtToken(p)

\* C24: for every emitted UserTradeParams, token_in is token0 of the pool if
\* amount0_sent > 0 and token1 otherwise; exactly one of token_in = token0,
\* token_in = token1 holds, and token_out is the other token of the pool.
C24_TokenInOutComplement ==
    trade_params.ok =>
        \A i \in 1..Len(trade_params.val) :
            LET p == trade_params.val[i]
                tks == get_pair_tokens(p.pool)
            IN  /\ p.token_in = IF p.amount0_sent > 0 THEN tks[1] ELSE tks[2]
                /\ (p.token_in = tks[1]) # (p.token_in = tks[2])
                /\ p.token_out = IF p.token_in = tks[1] THEN tks[2] ELSE tks[1]

C24_Witness ==
    /\ trade_params.ok
    /\ Len(trade_params.val) = 2
    /\ trade_params.val[1].amount0_sent > 0
    /\ trade_params.val[1].token_in = get_pair_tokens(trade_params.val[1].pool)[1]
    /\ trade_params.val[2].amount0_sent = 0
    /\ trade_params.val[2].amount1_sent > 0
    /\ trade_params.val[2].token_in = get_pair_tokens(trade_params.val[2].pool)[2]

C26_NoProfitFilter ==
    (pc = "done" /\ returned.ok) =>
        LET done == { i \in 1..Len(pool_handles) : Succeeded(pool_handles[i]) }
            Before(i) == Cardinality({ j \in done : j < i })
        IN  /\ Len(returned.val) = Cardinality(done)
            /\ \A i \in done :
                   /\ pool_handles[i].search.ok
                   /\ returned.val[Before(i) + 1].user_trade = pool_handles[i].params
                   /\ returned.val[Before(i) + 1].backrun_trade.amount_in
                          = pool_handles[i].search.val[1]
                   /\ returned.val[Before(i) + 1].backrun_trade.balance_end
                          = pool_handles[i].search.val[2]

C26_Witness ==
    /\ pc = "done"
    /\ returned.ok
    /\ Len(returned.val) = 2
    /\ returned.val[1].backrun_trade.profit = 0
    /\ returned.val[1].backrun_trade.balance_end <= START_BALANCE
    /\ returned.val[2].backrun_trade.profit > 0

\* C27: after an expansion over [range_lo, range_hi], with band =
\* floor((range_hi - range_lo) / STEP_INTERVALS) and amount_in* the best
\* amount after the aggregation, the next call has depth d + 1 and the range
\* [amount_in* - band, or 0 if amount_in* < band; amount_in* + band, or
\* U256::MAX if that exceeds it]; range_lo <= range_hi holds on entry to
\* every call, so the subtraction of the width never underflows.
C27_Contraction ==
    /\ [](pc = "call" => /\ 0 <= range[1]
                         /\ range[1] <= range[2]
                         /\ range[2] <= U256_MAX)
    /\ [][(pc = "join" /\ pc' = "call") =>
             LET band == (range[2] - range[1]) \div STEP_INTERVALS
                 a == best_amount_in_out'.v[1]
             IN  /\ depth'.some /\ depth'.v = depth.v + 1
                 /\ best_amount_in_out'.some
                 /\ range'[1] = IF a >= band THEN a - band ELSE 0
                 /\ range'[2] = IF a > U256_MAX - band THEN U256_MAX ELSE a + band]_vars

C27_Witness ==
    /\ pc = "call"
    /\ depth.some /\ depth.v >= 1
    /\ range[2] = U256_MAX
    /\ range[1] > 0
    /\ band_width > 0
    /\ best_amount_in_out.v[1] > U256_MAX - band_width

C29_Bootstrap ==
    /\ [][(/\ pc = "call"
           /\ ~depth.some
           /\ Len(params.arb_pools) # 0
           /\ Width >= W_MIN) =>
             /\ pc' = "call"
             /\ depth' = SomeDepth(0)
             /\ range' = range
             /\ best_amount_in_out' = Some(<<0, 0>>)
             /\ forks' = forks
             /\ sims' = sims
             /\ handles' = handles]_vars
    /\ []((pc = "call" /\ depth.some) => best_amount_in_out.some)
    /\ []((pc \in {"returned", "batched"} /\ res = Err(MsgNoOpportunity)) =>
             /\ ~depth.some
             /\ sims = 0
             /\ expansions = 0)

C29_Witness ==
    /\ pc = "call"
    /\ depth = SomeDepth(0)
    /\ best_amount_in_out = Some(<<0, 0>>)
    /\ range = <<0, amount_in_start>>
    /\ Width >= W_MIN
    /\ sims = 0
    /\ expansions = 0

\* the family of a pool of the trade: the user's pool has the family of the
\* swap log, its counterpart comes from the factories of the other family
FamilyOf(pool) ==
    IF pool = params.pool THEN params.pool_variant ELSE other(params.pool_variant)

\* C30: in every search the orchestrator launches, each leg carries the family
\* of the pool it is paired with (params.pool with params.pool_variant, the
\* counterpart with params.pool_variant.other()), the family of the end leg
\* is the other of the start leg's, and the two pools are params.pool and
\* the last element of arb_pools.
C30_LegFamilies ==
    Launched =>
        /\ start_pair_variant[2] = FamilyOf(start_pair_variant[1])
        /\ end_pair_variant[2] = FamilyOf(end_pair_variant[1])
        /\ end_pair_variant[2] = other(start_pair_variant[2])
        /\ end_pair_variant[2] # start_pair_variant[2]
        /\ {start_pair_variant[1], end_pair_variant[1]}
               = {params.pool, OtherPool(params)}
        /\ start_pair_variant[1] # end_pair_variant[1]

C30_Witness ==
    /\ pc = "call"
    /\ params.pool_variant = "UniswapV2"
    /\ start_pair_variant = <<OtherPool(params), "UniswapV3">>
    /\ end_pair_variant = <<params.pool, "UniswapV2">>

\* C31: the best is replaced only by a strictly greater balance, the band
\* results being taken in ascending band index: balance_end* never decreases
\* during a search; after an expansion the best is the old one unless some
\* band returned a greater balance, and then it is the result of the first
\* band (the smallest amount_in) that returned the greatest balance; a best
\* of an earlier round is kept over an equal balance found later.
C31_StrictImprovement ==
    /\ [][(pc \in {"call", "spawn", "join"}) =>
             (best_amount_in_out'.v[2] >= best_amount_in_out.v[2])]_vars
    /\ [][(pc = "join" /\ pc' = "call") =>
             LET old == best_amount_in_out.v
                 new == best_amount_in_out'.v
                 oks == { i \in 1..STEP_INTERVALS : IsOk(revenues'[i]) }
                 Bal(i) == revenues'[i].r.val[2]
             IN  IF \E i \in oks : Bal(i) > old[2]
                 THEN \E i \in oks :
                          /\ new = revenues'[i].r.val
                          /\ new[1] = handles[i]
                          /\ new[2] > old[2]
                          /\ \A j \in oks : Bal(j) <= Bal(i)
                          /\ \A j \in oks : Bal(j) = Bal(i) =>
                                 j >= i /\ handles[j] >= new[1]
                 ELSE new = old]_vars

\* an earlier best kept over equal balances found in a later round, after a
\* round in which the first of equal bands was kept
C31_Witness ==
    /\ pc = "call"
    /\ depth.some /\ depth.v >= 2
    /\ Len(revenues) = STEP_INTERVALS
    /\ \A i \in 1..STEP_INTERVALS :
           IsOk(revenues[i]) /\ revenues[i].r.val[2] = best_amount_in_out.v[2]
    /\ best_amount_in_out.v[2] > 0
    /\ \E i \in 1..STEP_INTERVALS : revenues[i].r.val[1] > best_amount_in_out.v[1]

InSearch == pc \in {"call", "spawn", "join", "returned"}

\* C32: in a search started on [0, amount_in_start], range_hi never increases
\* from one step_arb call to the next and every contraction makes the range
\* strictly narrower (new width <= 2 * floor(old width / STEP_INTERVALS));
\* hence amount_in* <= amount_in_start throughout and the clamp of the upper
\* bound at U256::MAX is never taken.
C32_RangeShrinks ==
    /\ [][InSearch => range'[2] <= range[2]]_vars
    /\ [][(pc = "join" /\ pc' = "call") =>
             /\ range'[2] - range'[1] < range[2] - range[1]
             /\ range'[2] - range'[1]
                    <= 2 * ((range[2] - range[1]) \div STEP_INTERVALS)
             /\ best_amount_in_out'.v[1] <= U256_MAX - band_width
             /\ range'[2] = best_amount_in_out'.v[1] + band_width]_vars
    /\ [](InSearch => /\ best_amount_in_out.v[1] <= amount_in_start
                      /\ range[2] <= amount_in_start)

C32_Witness ==
    /\ pc = "call"
    /\ depth.some /\ depth.v >= 2
    /\ amount_in_start = U256_MAX
    /\ best_amount_in_out.v[1] >= (STEP_INTERVALS - 1) * (U256_MAX \div STEP_INTERVALS)
    /\ range[2] > best_amount_in_out.v[1]
    /\ range[2] <= U256_MAX

\* C33: for every UserTradeParams the decoder emits, tokens.weth is the WETH
\* address (token0 if token0_is_weth, token1 otherwise) and tokens.token is
\* the other, non-WETH token of the pool, so that the buy leg of every
\* simulation of a launched trade spends WETH and its sell leg returns WETH.
C33_WethIsWeth ==
    /\ trade_params.ok =>
           \A i \in 1..Len(trade_params.val) :
               LET p == trade_params.val[i]
                   tks == get_pair_tokens(p.pool)
               IN  /\ p.tokens.weth = WETH
                   /\ p.tokens.weth = IF p.token0_is_weth THEN tks[1] ELSE tks[2]
                   /\ p.tokens.token = IF p.token0_is_weth THEN tks[2] ELSE tks[1]
                   /\ p.tokens.token # WETH
    /\ \A i \in 1..Len(pool_handles) :
           /\ pool_handles[i].params.tokens.weth = WETH
           /\ pool_handles[i].params.tokens.token # WETH

\* C34: sim_bundle never returns an error; it commits the given
\* transactions in input order on the fork it was handed and returns the
\* execution results of exactly the transactions whose commit succeeded, in
\* input order, so never more results than transactions; when every commit
\* succeeds there is one result per transaction and the first result is the
\* first transaction's.
CommitSucceeded(entry) == entry.result.kind # "Error"
C35_SwapResult ==
    /\ [][(sim.pc = "buy" /\ sim'.pc = "sell") =>
             LET e == evm'[Len(evm')]
             IN  /\ evm' = Append(evm, e)
                 /\ e.tx = BuySwap(sim, params)
                 /\ sim'.amount_received > 0 =>
                        /\ e.result.kind = "Success"
                        /\ sim'.amount_received = e.result.balance]_vars
    /\ [][(sim.pc = "sell" /\ sim'.pc = "done") =>
             LET e == evm'[Len(evm')]
                 buy == evm[Len(evm)]
             IN  /\ evm' = Append(evm, e)
                 /\ buy.tx = BuySwap(sim, params)
                 /\ e.tx = SellSwap(sim, params)
                 /\ sim'.res.ok => /\ e.result.kind = "Success"
                                   /\ sim'.res.val[2] = e.result.balance
                 /\ e.result.kind = "Success" => sim'.res.ok
                 /\ e.result.kind = "Revert" =>
                        ~sim'.res.ok /\ Contains(sim'.res.msg, NeedleSwapReverted)
                 /\ e.result.kind = "Halt" =>
                        ~sim'.res.ok /\ Contains(sim'.res.msg, NeedleSwapHalted)]_vars

\* a sell that halts on the fork a successful buy was committed to
C35_Witness ==
    /\ sim.pc = "done"
    /\ Len(evm) = 3
    /\ evm[2].tx.token_in = params.tokens.weth
    /\ evm[2].result.kind = "Success"
    /\ evm[2].result.balance > 0
    /\ evm[3].tx.amount_in = evm[2].result.balance
    /\ evm[3].result.kind = "Halt"
    /\ ~sim.res.ok
    /\ Contains(sim.res.msg, NeedleSwapHalted)
    /\ ~Contains(sim.res.msg, NeedleSwapReverted)

====
